---- MODULE Spec2Model ----
(***************************************************************************)
(* BFT finality bookkeeping (framework/src/engine/bft/api.ts) and the      *)
(* chain connector's certificate generation                                *)
(* (framework-plugins/chain-connector: checkChainOfTrust,                  *)
(* getNextCertificateFromAggregateCommits, BlockEventHandler).             *)
(***************************************************************************)
EXTENDS Integers, Sequences, FiniteSets, TLC

VARIABLES
    blockHeaders,      \* chain connector db: height -> block header
    aggregateCommits,  \* chain connector db: height -> aggregate commit
    validatorsData,    \* chain connector db: validatorsHash -> ValidatorsData
    paramsStore,       \* BFT parameters store: 4-byte height key -> BFTParameters
    bftVotes,          \* BFT votes store: the singleton BFTVotes record
    call,              \* the operation last invoked, with its arguments
    result,            \* what that invocation returned or threw
    newBlockHandlers,       \* BlockEventHandler: the _handleNewBlock invocations, by block height
    receivingChainHandler,  \* BlockEventHandler: the _newBlockReceivingChainHandler invocation
    _lastSentCCUTxID,       \* BlockEventHandler fields
    _sentCCUTxTimeout,
    _lastSentCCM,
    _lastIncludedCCMOnReceivingChain,
    _isReceivingChainRegistered,
    _lastCertificate,
    timers,            \* the setTimeout callbacks that are pending
    postedCCUs,        \* receiving chain: ids of the CCU transactions it was sent
    includedCCUs,      \* receiving chain: ids of the CCU transactions in its blocks
    timedOutCCUs,      \* ids of the CCU transactions whose timeout has fired
    precedingSetCall,  \* history: the latest successful call of setBFTParameters
    crossChainMessages, \* ChainConnectorDB: height -> the CCMs saved for the block
    carriedCCMs,       \* history: id of a CCU transaction sent -> its lastCCMToBeSent
    _heightToDeleteIndex,            \* BlockEventHandler fields used by _cleanup
    _receivingChainFinalizedHeight,
    _lastDeletionHeight,
    receivingChainClients, \* the API clients connect() has created, oldest first
    handlerRuns,       \* the runs of _newBlockReceivingChainHandler the latest block started
    receivingChain     \* the receiving chain: its finalized height, and per block the
                       \* height of the last certificate of this chain

dbVars == <<blockHeaders, aggregateCommits, validatorsData, crossChainMessages>>
bftVars == <<paramsStore, bftVotes, precedingSetCall>>
fieldVars == <<_lastSentCCUTxID, _sentCCUTxTimeout, _lastSentCCM, _lastIncludedCCMOnReceivingChain, _isReceivingChainRegistered, _lastCertificate>>
cleanupVars == <<_heightToDeleteIndex, _receivingChainFinalizedHeight, _lastDeletionHeight>>
clientVars == <<receivingChainClients, handlerRuns, receivingChain>>
receivingVars == <<cleanupVars, clientVars>>
connectorVars == <<newBlockHandlers, receivingChainHandler, fieldVars, timers, postedCCUs, includedCCUs, timedOutCCUs, carriedCCMs, receivingVars>>
vars == <<dbVars, bftVars, call, result, connectorVars>>

EmptyStore == [k \in {} |-> 0]

\* the BFT votes record written at genesis, for a genesis block of height h
GenesisVotesAt(h) ==
    [maxHeightPrevoted |-> h, maxHeightPrecommitted |-> h, maxHeightCertified |-> h,
     blockBFTInfos |-> <<>>, activeValidatorsVoteInfo |-> <<>>]

GenesisVotes == GenesisVotesAt(0)

\* the stores of the components a specification leaves aside
BFTIdle == paramsStore = EmptyStore /\ bftVotes = GenesisVotes /\ precedingSetCall = [op |-> "none"]
DBIdle == blockHeaders = EmptyStore /\ aggregateCommits = EmptyStore /\ validatorsData = EmptyStore /\ crossChainMessages = EmptyStore

\* property initialisers of BlockEventHandler; fields declared without one
\* are undefined until assigned
FieldsInit ==
    /\ _lastSentCCUTxID = ""
    /\ _sentCCUTxTimeout = "undefined"
    /\ _lastSentCCM = [kind |-> "undefined"]
    /\ _lastIncludedCCMOnReceivingChain = [kind |-> "undefined"]
    /\ _isReceivingChainRegistered = FALSE
    /\ _lastCertificate = [kind |-> "undefined"]

\* the fields _cleanup works with: the constructor sets the finalized height,
\* load() creates the map, and _lastDeletionHeight is assigned by _cleanup
\* only
CleanupFieldsInit ==
    /\ _heightToDeleteIndex = EmptyStore
    /\ _receivingChainFinalizedHeight = 0
    /\ _lastDeletionHeight = [kind |-> "undefined"]

\* no API client of the receiving chain has been created, and the receiving
\* chain has no block yet
ClientsIdle ==
    /\ receivingChainClients = <<>>
    /\ handlerRuns = 0
    /\ receivingChain = [finalizedHeight |-> 0, lastCertificateHeights |-> <<>>]

ConnectorIdle ==
    /\ FieldsInit
    /\ CleanupFieldsInit
    /\ ClientsIdle
    /\ carriedCCMs = EmptyStore
    /\ newBlockHandlers = EmptyStore
    /\ receivingChainHandler = [pc |-> "idle"]
    /\ timers = {}
    /\ postedCCUs = {}
    /\ includedCCUs = {}
    /\ timedOutCCUs = {}

(***************************************************************************)
(* Bounds and input domains                                                *)
(***************************************************************************)
MaxHeight == 2

Heights == 0..MaxHeight

\* validatorsHash digests (opaque 32-byte values, compared with Buffer.equals)
Hashes == {"vhA", "vhB"}

\* BLS keys (opaque 48-byte values, used as map keys through their hex form)
Keys == {11, 12, 13}

\* aggregationBits buffers: sequences of bytes
Bitmaps == {<<0>>, <<1>>, <<2>>, <<3>>, <<16>>, <<17>>, <<21, 16>>}

\* validator lists of a ValidatorsData snapshot
V(k, w) == [blsKey |-> k, bftWeight |-> w]

SnapshotValidators ==
    { <<V(11, 2), V(12, 1)>>,
      <<V(13, 1), V(11, 2)>>,
      <<V(12, 1), V(11, 0)>>,
      <<V(12, 1), V(13, 1), V(11, 0)>>,
      <<V(13, 3)>> }

\* blsKeyToBFTWeight arguments of checkChainOfTrust: partial maps key -> weight
KeyWeightMaps ==
    { [k \in {11, 12} |-> IF k = 11 THEN 2 ELSE 1],
      [k \in {11} |-> 3],
      [k \in {11, 12} |-> IF k = 11 THEN 0 ELSE 2],
      [k \in {} |-> 0] }

TrustThresholds == {1, 2, 3}

(***************************************************************************)
(* Records                                                                 *)
(***************************************************************************)
\* a block header of the sending chain, as stored by the connector
BlockHeader(h, vh) ==
    [id |-> 100 + h, height |-> h, stateRoot |-> 200 + h,
     timestamp |-> 10 * h, validatorsHash |-> vh]

AggregateCommit(h, bits) ==
    [height |-> h, aggregationBits |-> bits, certificateSignature |-> 300 + h]

ValidatorsData(vh, vs, thr) ==
    [validators |-> vs, certificateThreshold |-> thr, validatorsHash |-> vh]

Return(v) == [kind |-> "return", value |-> v]
Throw(e) == [kind |-> "throw", error |-> e]
None == [kind |-> "undefined"]

(***************************************************************************)
(* ChainConnectorDB reads                                                  *)
(***************************************************************************)
hasBlockHeader(headers, h) == h \in DOMAIN headers
getBlockHeaderByHeight(headers, h) == headers[h]

hasAggregateCommit(commits, h) == h \in DOMAIN commits
getAggregateCommitByHeight(commits, h) == commits[h]

hasValidatorsData(vdata, vh) == vh \in DOMAIN vdata
getValidatorsDataByHash(vdata, vh) == vdata[vh]

(***************************************************************************)
(* Buffer.toString('hex'): two hexadecimal digits per byte, high nibble    *)
(* first.  A hex string is modelled as the sequence of its digits' values  *)
(* (the character '1' is the digit value 1).                               *)
(***************************************************************************)
RECURSIVE toHex(_)
toHex(bytes) ==
    IF bytes = <<>> THEN <<>>
    ELSE <<Head(bytes) \div 16, Head(bytes) % 16>> \o toHex(Tail(bytes))

\* str[i] === '1' for a JavaScript string index i (undefined past the end)
hexCharIsOne(str, i) == i < Len(str) /\ str[i + 1] = 1

(***************************************************************************)
(* checkChainOfTrust                                                       *)
(***************************************************************************)
\* !blsKeyToBFTWeight[blsKey]: a missing entry is undefined, and BigInt(0)
\* is falsy as well
keyRejected(blsKeyToBFTWeight, blsKey) ==
    \/ blsKey \notin DOMAIN blsKeyToBFTWeight
    \/ blsKeyToBFTWeight[blsKey] = 0

\* the for loop of checkChainOfTrust from index i on, with the weight summed
\* so far; the aggregationBits are read through their hex string
RECURSIVE signersLoop(_, _, _, _, _, _)
signersLoop(i, aggregateBFTWeight, validators, bitsHex, blsKeyToBFTWeight, lastCertificateThreshold) ==
    IF i >= Len(validators)
    THEN Return(aggregateBFTWeight >= lastCertificateThreshold)
    ELSE IF hexCharIsOne(bitsHex, i)
    THEN LET blsKey == validators[i + 1].blsKey IN
         IF keyRejected(blsKeyToBFTWeight, blsKey)
         THEN Return(FALSE)
         ELSE signersLoop(i + 1, aggregateBFTWeight + blsKeyToBFTWeight[blsKey],
                          validators, bitsHex, blsKeyToBFTWeight,
                          lastCertificateThreshold)
    ELSE signersLoop(i + 1, aggregateBFTWeight, validators, bitsHex,
                     blsKeyToBFTWeight, lastCertificateThreshold)

\* checkChainOfTrust without the early return on equal validators hashes
checkChainOfTrust_NoEarlyReturn(lastValidatorsHash, blsKeyToBFTWeight, lastCertificateThreshold, aggregateCommit, headers, vdata) ==
    IF ~hasBlockHeader(headers, aggregateCommit.height - 1)
    THEN Throw("MissingBlockHeader")
    ELSE LET blockHeader == getBlockHeaderByHeight(headers, aggregateCommit.height - 1) IN
         IF ~hasValidatorsData(vdata, blockHeader.validatorsHash)
         THEN Throw("MissingValidatorSnapshot")
         ELSE signersLoop(0, 0,
                          getValidatorsDataByHash(vdata, blockHeader.validatorsHash).validators,
                          toHex(aggregateCommit.aggregationBits),
                          blsKeyToBFTWeight, lastCertificateThreshold)

\* checkChainOfTrust taking a missing header or snapshot for "not trusted"
checkChainOfTrust_MissingIsFalse(lastValidatorsHash, blsKeyToBFTWeight, lastCertificateThreshold, aggregateCommit, headers, vdata) ==
    IF ~hasBlockHeader(headers, aggregateCommit.height - 1)
    THEN Return(FALSE)
    ELSE LET blockHeader == getBlockHeaderByHeight(headers, aggregateCommit.height - 1) IN
         IF lastValidatorsHash = blockHeader.validatorsHash
         THEN Return(TRUE)
         ELSE IF ~hasValidatorsData(vdata, blockHeader.validatorsHash)
         THEN Return(FALSE)
         ELSE signersLoop(0, 0,
                          getValidatorsDataByHash(vdata, blockHeader.validatorsHash).validators,
                          toHex(aggregateCommit.aggregationBits),
                          blsKeyToBFTWeight, lastCertificateThreshold)

checkChainOfTrust(lastValidatorsHash, blsKeyToBFTWeight, lastCertificateThreshold, aggregateCommit, headers, vdata) ==
    IF ~hasBlockHeader(headers, aggregateCommit.height - 1)
    THEN Throw("MissingBlockHeader")
    ELSE LET blockHeader == getBlockHeaderByHeight(headers, aggregateCommit.height - 1) IN
         IF lastValidatorsHash = blockHeader.validatorsHash
         THEN Return(TRUE)
         ELSE IF ~hasValidatorsData(vdata, blockHeader.validatorsHash)
         THEN Throw("MissingValidatorSnapshot")
         ELSE signersLoop(0, 0,
                          getValidatorsDataByHash(vdata, blockHeader.validatorsHash).validators,
                          toHex(aggregateCommit.aggregationBits),
                          blsKeyToBFTWeight, lastCertificateThreshold)

(***************************************************************************)
(* getNextCertificateFromAggregateCommits                                  *)
(***************************************************************************)
computeUnsignedCertificateFromBlockHeader(blockHeader) ==
    [blockID |-> blockHeader.id, height |-> blockHeader.height,
     stateRoot |-> blockHeader.stateRoot, timestamp |-> blockHeader.timestamp,
     validatorsHash |-> blockHeader.validatorsHash]

\* getCertificateFromAggregateCommitByBlockHeader with the two fields of the
\* aggregate commit taken from the header side
getCertificateFromAggregateCommitByBlockHeader_HeaderSignature(aggregateCommit, blockHeader) ==
    LET unsigned == computeUnsignedCertificateFromBlockHeader(blockHeader) IN
    [blockID |-> unsigned.blockID, height |-> aggregateCommit.height,
     stateRoot |-> unsigned.stateRoot, timestamp |-> unsigned.timestamp,
     validatorsHash |-> unsigned.validatorsHash,
     aggregationBits |-> aggregateCommit.aggregationBits,
     signature |-> unsigned.stateRoot]

getCertificateFromAggregateCommitByBlockHeader(aggregateCommit, blockHeader) ==
    LET unsigned == computeUnsignedCertificateFromBlockHeader(blockHeader) IN
    [blockID |-> unsigned.blockID, height |-> unsigned.height,
     stateRoot |-> unsigned.stateRoot, timestamp |-> unsigned.timestamp,
     validatorsHash |-> unsigned.validatorsHash,
     aggregationBits |-> aggregateCommit.aggregationBits,
     signature |-> aggregateCommit.certificateSignature]

\* blsKeyToBFTWeight[validator.blsKey] = validator.bftWeight for each validator
\* in list order: a later entry with the same key overwrites an earlier one
lastIndexOfKey(validators, k) ==
    CHOOSE i \in 1..Len(validators) :
        /\ validators[i].blsKey = k
        /\ \A j \in (i + 1)..Len(validators) : validators[j].blsKey # k

buildBLSKeyToBFTWeight(validators) ==
    [k \in {validators[i].blsKey : i \in 1..Len(validators)} |->
        validators[lastIndexOfKey(validators, k)].bftWeight]

\* the while loop of getNextCertificateFromAggregateCommits from `height` down
RECURSIVE certificateScan(_, _, _, _, _, _, _, _)
certificateScan(height, lastCertificateHeight, lastValidatorsHash, blsKeyToBFTWeight, lastCertificateThreshold, headers, commits, vdata) ==
    IF ~(height > lastCertificateHeight)
    THEN None
    ELSE IF hasAggregateCommit(commits, height)
    THEN LET aggregateCommitAtHeight == getAggregateCommitByHeight(commits, height)
             valid == checkChainOfTrust(lastValidatorsHash, blsKeyToBFTWeight,
                                        lastCertificateThreshold,
                                        aggregateCommitAtHeight, headers, vdata)
         IN  IF valid.kind = "throw"
             THEN valid
             ELSE IF valid.value
             THEN IF ~hasBlockHeader(headers, aggregateCommitAtHeight.height)
                  THEN Throw("MissingBlockHeader")
                  ELSE Return(getCertificateFromAggregateCommitByBlockHeader(
                                  aggregateCommitAtHeight,
                                  getBlockHeaderByHeight(headers, aggregateCommitAtHeight.height)))
             ELSE certificateScan(height - 1, lastCertificateHeight, lastValidatorsHash,
                                  blsKeyToBFTWeight, lastCertificateThreshold,
                                  headers, commits, vdata)
    ELSE certificateScan(height - 1, lastCertificateHeight, lastValidatorsHash,
                         blsKeyToBFTWeight, lastCertificateThreshold,
                         headers, commits, vdata)

\* the scan started one below maxHeightCertified
getNextCertificate_SkipTop(headers, commits, vdata, bftHeights, lastCertificate) ==
    IF ~hasBlockHeader(headers, lastCertificate.height)
    THEN Throw("MissingBlockHeader")
    ELSE LET lastHeader == getBlockHeaderByHeight(headers, lastCertificate.height) IN
         IF ~hasValidatorsData(vdata, lastHeader.validatorsHash)
         THEN Throw("MissingValidatorSnapshot")
         ELSE LET lastData == getValidatorsDataByHash(vdata, lastHeader.validatorsHash)
              IN  certificateScan(bftHeights.maxHeightCertified - 1, lastCertificate.height,
                                  lastHeader.validatorsHash,
                                  buildBLSKeyToBFTWeight(lastData.validators),
                                  lastData.certificateThreshold,
                                  headers, commits, vdata)

\* a scan that finds no certificate reported as an error
getNextCertificate_ThrowOnNone(headers, commits, vdata, bftHeights, lastCertificate) ==
    IF ~hasBlockHeader(headers, lastCertificate.height)
    THEN Throw("MissingBlockHeader")
    ELSE LET lastHeader == getBlockHeaderByHeight(headers, lastCertificate.height) IN
         IF ~hasValidatorsData(vdata, lastHeader.validatorsHash)
         THEN Throw("MissingValidatorSnapshot")
         ELSE LET lastData == getValidatorsDataByHash(vdata, lastHeader.validatorsHash)
                  found == certificateScan(bftHeights.maxHeightCertified,
                                           lastCertificate.height,
                                           lastHeader.validatorsHash,
                                           buildBLSKeyToBFTWeight(lastData.validators),
                                           lastData.certificateThreshold,
                                           headers, commits, vdata)
              IN  IF found = None THEN Throw("NoCertificateFound") ELSE found

getNextCertificateFromAggregateCommits(headers, commits, vdata, bftHeights, lastCertificate) ==
    IF ~hasBlockHeader(headers, lastCertificate.height)
    THEN Throw("MissingBlockHeader")
    ELSE LET blockHeaderAtLastCertifiedHeight ==
                 getBlockHeaderByHeight(headers, lastCertificate.height) IN
         IF ~hasValidatorsData(vdata, blockHeaderAtLastCertifiedHeight.validatorsHash)
         THEN Throw("MissingValidatorSnapshot")
         ELSE LET validatorDataAtLastCertifiedHeight ==
                      getValidatorsDataByHash(vdata, blockHeaderAtLastCertifiedHeight.validatorsHash)
              IN  certificateScan(bftHeights.maxHeightCertified, lastCertificate.height,
                                  blockHeaderAtLastCertifiedHeight.validatorsHash,
                                  buildBLSKeyToBFTWeight(validatorDataAtLastCertifiedHeight.validators),
                                  validatorDataAtLastCertifiedHeight.certificateThreshold,
                                  headers, commits, vdata)

(***************************************************************************)
(* Specification of checkChainOfTrust: the connector db holds any block    *)
(* headers and validator snapshots, and the function is applied to any     *)
(* arguments.                                                              *)
(***************************************************************************)
PartialFunctions(D, R) == UNION {[S -> R] : S \in SUBSET D}

NoCall == [op |-> "none"]

InitTrust ==
    /\ blockHeaders \in
         {[h \in DOMAIN f |-> BlockHeader(h, f[h])] :
            f \in PartialFunctions(0..(MaxHeight - 1), Hashes)}
    /\ aggregateCommits = EmptyStore
    /\ crossChainMessages = EmptyStore
    /\ BFTIdle
    /\ ConnectorIdle
    /\ validatorsData \in
         {[vh \in DOMAIN f |-> ValidatorsData(vh, f[vh], 2)] :
            f \in PartialFunctions(Hashes, SnapshotValidators)}
    /\ call = NoCall
    /\ result = None

CallCheckChainOfTrust ==
    \E lastValidatorsHash \in Hashes, blsKeyToBFTWeight \in KeyWeightMaps,
       lastCertificateThreshold \in TrustThresholds,
       height \in 1..MaxHeight, bits \in Bitmaps :
        /\ call = NoCall
        /\ call' = [op |-> "checkChainOfTrust",
                    lastValidatorsHash |-> lastValidatorsHash,
                    blsKeyToBFTWeight |-> blsKeyToBFTWeight,
                    lastCertificateThreshold |-> lastCertificateThreshold,
                    aggregateCommit |-> AggregateCommit(height, bits)]
        /\ result' = checkChainOfTrust(lastValidatorsHash, blsKeyToBFTWeight,
                                       lastCertificateThreshold,
                                       AggregateCommit(height, bits),
                                       blockHeaders, validatorsData)
        /\ UNCHANGED <<dbVars, bftVars, connectorVars>>

NextTrust == CallCheckChainOfTrust

SpecTrust == InitTrust /\ [][NextTrust]_vars

(***************************************************************************)
(* Properties of checkChainOfTrust (SpecTrust)                             *)
(***************************************************************************)
TrustCalled == call.op = "checkChainOfTrust"

prevHeight == call.aggregateCommit.height - 1
prevHeaderStored == prevHeight \in DOMAIN blockHeaders
prevHash == blockHeaders[prevHeight].validatorsHash
hashesEqual == prevHeaderStored /\ prevHash = call.lastValidatorsHash
hashesDiffer == prevHeaderStored /\ prevHash # call.lastValidatorsHash
snapshotStored == prevHeaderStored /\ prevHash \in DOMAIN validatorsData
snapshotList == validatorsData[prevHash].validators

\* bit i of a bitmap: bit (i mod 8), counted from the least significant, of
\* byte (i div 8)
bitSet(bytes, i) ==
    /\ i \div 8 < Len(bytes)
    /\ (bytes[(i \div 8) + 1] \div (2 ^ (i % 8))) % 2 = 1

\* the validators the aggregationBits select: index i signs iff bit i is set
signerIndexes ==
    {i \in 0..(Len(snapshotList) - 1) : bitSet(call.aggregateCommit.aggregationBits, i)}

signerKey(i) == snapshotList[i + 1].blsKey

RECURSIVE SumWeights(_, _)
SumWeights(S, weightOf) ==
    IF S = {} THEN 0
    ELSE LET i == CHOOSE j \in S : TRUE IN
         weightOf[signerKey(i)] + SumWeights(S \ {i}, weightOf)

\* C2: with a differing validators hash, one signer selected by the
\* aggregationBits whose BLS key is absent from blsKeyToWeight makes
\* checkChainOfTrust return false.
C2_UnknownSignerRejected ==
    (/\ TrustCalled
     /\ hashesDiffer
     /\ snapshotStored
     /\ \E i \in signerIndexes : signerKey(i) \notin DOMAIN call.blsKeyToBFTWeight)
    => result = Return(FALSE)

\* C3: with a differing validators hash and every selected signer recognized,
\* checkChainOfTrust returns true iff the weights of the validators whose bit
\* is set sum to at least lastCertificateThreshold.
C3_WeightOfSetBitsDecides ==
    (/\ TrustCalled
     /\ hashesDiffer
     /\ snapshotStored
     /\ \A i \in signerIndexes : signerKey(i) \in DOMAIN call.blsKeyToBFTWeight)
    => result = Return(SumWeights(signerIndexes, call.blsKeyToBFTWeight)
                         >= call.lastCertificateThreshold)

\* the validators the loop of checkChainOfTrust takes as signers: index i
\* signs iff character i of the hex string is '1'
hexSignerIndexes ==
    {i \in 0..(Len(snapshotList) - 1) :
        hexCharIsOne(toHex(call.aggregateCommit.aggregationBits), i)}

\* C27: a signer whose BLS key is in blsKeyToWeight with weight 0 counts as
\* recognized and adds 0: when every signer is recognized and the weights
\* of the signers reach lastCertificateThreshold, checkChainOfTrust returns
\* true although one of the signers has weight 0.  Stated for the bitmaps
\* that select the same signers by bit and by hex character.
C27_ZeroWeightSignerRecognized ==
    (/\ TrustCalled
     /\ hashesDiffer
     /\ snapshotStored
     /\ signerIndexes = hexSignerIndexes
     /\ \A i \in signerIndexes : signerKey(i) \in DOMAIN call.blsKeyToBFTWeight
     /\ \E i \in signerIndexes : call.blsKeyToBFTWeight[signerKey(i)] = 0
     /\ SumWeights(signerIndexes, call.blsKeyToBFTWeight) >= call.lastCertificateThreshold)
    => result = Return(TRUE)

\* C4: when the header at aggregateCommit.height - 1 carries lastValidatorsHash,
\* checkChainOfTrust returns true whatever the bitmap, the weight map, the
\* threshold and the stored snapshots.
C4_EqualHashTrusted ==
    (TrustCalled /\ hashesEqual) => result = Return(TRUE)

C4_Witness ==
    /\ TrustCalled
    /\ hashesEqual
    /\ ~snapshotStored
    /\ call.aggregateCommit.aggregationBits = <<17>>
    /\ call.blsKeyToBFTWeight = [k \in {} |-> 0]
    /\ call.lastCertificateThreshold = 3
    /\ result = Return(TRUE)

\* C5: checkChainOfTrust throws when no header is stored at
\* aggregateCommit.height - 1, and when that header's validators hash differs
\* from lastValidatorsHash and no snapshot is stored for it; with equal hashes
\* it returns without a snapshot.
C5_MissingDataThrows ==
    TrustCalled =>
        /\ ~prevHeaderStored => result = Throw("MissingBlockHeader")
        /\ (hashesDiffer /\ ~snapshotStored) => result = Throw("MissingValidatorSnapshot")
        /\ (hashesEqual /\ ~snapshotStored) => result.kind = "return"
        /\ result.kind = "throw" => (~prevHeaderStored \/ (hashesDiffer /\ ~snapshotStored))

C5_Witness ==
    /\ TrustCalled
    /\ hashesDiffer
    /\ ~snapshotStored
    /\ result = Throw("MissingValidatorSnapshot")

(***************************************************************************)
(* Specification of getNextCertificateFromAggregateCommits: the connector  *)
(* db holds any block headers, aggregate commits and validator snapshots   *)
(* (headers and snapshots may be missing: blocks produced while the plugin *)
(* was not running are never saved), and the function is applied to any    *)
(* last certificate height and maxHeightCertified.                         *)
(***************************************************************************)
CertBitmaps == {<<1>>, <<16>>}

InitCert ==
    /\ blockHeaders \in
         {[h \in DOMAIN f |-> BlockHeader(h, f[h])] :
            f \in PartialFunctions(Heights, Hashes)}
    /\ aggregateCommits \in
         {[h \in DOMAIN f |-> AggregateCommit(h, f[h])] :
            f \in PartialFunctions(1..MaxHeight, CertBitmaps)}
    /\ crossChainMessages = EmptyStore
    /\ BFTIdle
    /\ ConnectorIdle
    /\ validatorsData \in
         {[vh \in DOMAIN f |-> ValidatorsData(vh, f[vh], 2)] :
            f \in PartialFunctions(Hashes, SnapshotValidators)}
    /\ call = NoCall
    /\ result = None

\* CallGetNextCertificate taking the aggregate commit it certifies out of the db
CallGetNextCertificate_ConsumesCommit ==
    \E lastCertificateHeight \in Heights, maxHeightCertified \in Heights :
        LET answer == getNextCertificateFromAggregateCommits(
                          blockHeaders, aggregateCommits, validatorsData,
                          [maxHeightCertified |-> maxHeightCertified],
                          [height |-> lastCertificateHeight])
        IN  /\ call = NoCall
            /\ call' = [op |-> "getNextCertificateFromAggregateCommits",
                        bftHeights |-> [maxHeightCertified |-> maxHeightCertified],
                        lastCertificate |-> [height |-> lastCertificateHeight]]
            /\ result' = answer
            /\ aggregateCommits' =
                   IF answer.kind = "return"
                   THEN [h \in (DOMAIN aggregateCommits) \ {answer.value.height} |-> aggregateCommits[h]]
                   ELSE aggregateCommits
            /\ UNCHANGED <<blockHeaders, validatorsData, crossChainMessages, bftVars, connectorVars>>

CallGetNextCertificate ==
    \E lastCertificateHeight \in Heights, maxHeightCertified \in Heights :
        /\ call = NoCall
        /\ call' = [op |-> "getNextCertificateFromAggregateCommits",
                    bftHeights |-> [maxHeightCertified |-> maxHeightCertified],
                    lastCertificate |-> [height |-> lastCertificateHeight]]
        /\ result' = getNextCertificateFromAggregateCommits(
                         blockHeaders, aggregateCommits, validatorsData,
                         [maxHeightCertified |-> maxHeightCertified],
                         [height |-> lastCertificateHeight])
        /\ UNCHANGED <<dbVars, bftVars, connectorVars>>

NextCert == CallGetNextCertificate

SpecCert == InitCert /\ [][NextCert]_vars

(***************************************************************************)
(* Properties of getNextCertificateFromAggregateCommits (SpecCert)         *)
(***************************************************************************)
CertCalled == call.op = "getNextCertificateFromAggregateCommits"

lastHeight == call.lastCertificate.height
topHeight == call.bftHeights.maxHeightCertified

lastHeaderStored == lastHeight \in DOMAIN blockHeaders
lastHash == blockHeaders[lastHeight].validatorsHash
lastSnapshotStored == lastHeaderStored /\ lastHash \in DOMAIN validatorsData
lastValidators == validatorsData[lastHash].validators
lastThreshold == validatorsData[lastHash].certificateThreshold

\* the heights of the range (lastCertificate.height, maxHeightCertified] that
\* hold an aggregate commit
CommitHeights == {h \in (lastHeight + 1)..topHeight : h \in DOMAIN aggregateCommits}

\* checkChainOfTrust for the commit stored at h, against the validator set and
\* certificate threshold of lastCertificate.height
trustAt(h) == checkChainOfTrust(lastHash, buildBLSKeyToBFTWeight(lastValidators), lastThreshold, aggregateCommits[h], blockHeaders, validatorsData)

Qualifying == {h \in CommitHeights : trustAt(h) = Return(TRUE)}

MaxOf(S) == CHOOSE h \in S : \A g \in S : g <= h

certificateAt(h) == getCertificateFromAggregateCommitByBlockHeader(aggregateCommits[h], blockHeaders[h])

DataAvailable ==
    /\ lastSnapshotStored
    /\ \A h \in CommitHeights :
          /\ (h - 1) \in DOMAIN blockHeaders
          /\ \/ blockHeaders[h - 1].validatorsHash = lastHash
             \/ blockHeaders[h - 1].validatorsHash \in DOMAIN validatorsData
          /\ h \in DOMAIN blockHeaders

\* C6: when no height of the range holds a commit that passes
\* checkChainOfTrust the result is undefined, also for an empty range and
\* for no stored commit; the call throws only when a block header or a
\* validator snapshot it needs is missing.
C6_NoneWithoutError ==
    CertCalled =>
        /\ result.kind = "throw" =>
              /\ ~DataAvailable
              /\ result.error \in {"MissingBlockHeader", "MissingValidatorSnapshot"}
        /\ (lastSnapshotStored /\ result.kind # "throw" /\ Qualifying = {}) => result = None
        /\ (lastSnapshotStored /\ CommitHeights = {}) => result = None
        /\ (lastSnapshotStored /\ topHeight <= lastHeight) => result = None

\* commits are stored in the range, none is trusted, and nothing is missing
C6_Witness ==
    /\ CertCalled
    /\ DataAvailable
    /\ CommitHeights # {}
    /\ Qualifying = {}
    /\ result = None

(***************************************************************************)
(* BFT parameters store and BFT votes ledger (engine/bft/api.ts)           *)
(***************************************************************************)
\* number of blocks recorded in the ledger after genesis
MaxBlocks == 2

\* the _batchSize field, set by BFTAPI.init(batchSize); the networks run
\* with 53 and more, the lists of validators here have 2 and 3 entries
batchSize == 2

\* thresholds passed to setBFTParameters
Thresholds == {1, 2, 3}

\* a BFTValidator: addresses and BLS keys are byte strings, modelled by
\* integers ordered as Buffer.compare orders the bytes
Validator(a, k, w) == [address |-> a, blsKey |-> k, bftWeight |-> w]

ValidatorLists ==
    { <<Validator(1, 11, 2), Validator(2, 12, 1)>>,
      <<Validator(2, 12, 1), Validator(1, 11, 2)>>,
      <<Validator(3, 13, 1), Validator(2, 12, 1)>>,
      <<Validator(1, 11, 2), Validator(2, 12, 1), Validator(3, 13, 1)>>,
      <<Validator(1, 11, 0), Validator(2, 12, 1)>>,
      <<Validator(1, 11, 2), Validator(2, 12, -1)>> }

\* the generator of the recorded blocks (it plays no part in the parameters)
GeneratorAddresses == {1}

\* height of the genesis block: the heights after it lie on both sides of a
\* change of the second lowest byte of the 4-byte key
GenesisHeights == {254}

\* utils.intToBuffer(value, 4): 4 bytes, big endian
intToBuffer(n) == <<(n \div 16777216) % 256, (n \div 65536) % 256, (n \div 256) % 256, n % 256>>

\* Buffer.readUInt32BE(0)
readUInt32BE(b) == ((b[1] * 256 + b[2]) * 256 + b[3]) * 256 + b[4]

\* byte-wise comparison of two keys, as the key-value store orders them
RECURSIVE bytesCompare(_, _)
bytesCompare(a, b) ==
    IF a = <<>> THEN (IF b = <<>> THEN 0 ELSE -1)
    ELSE IF b = <<>> THEN 1
    ELSE IF Head(a) < Head(b) THEN -1
    ELSE IF Head(a) > Head(b) THEN 1
    ELSE bytesCompare(Tail(a), Tail(b))

RECURSIVE orderedKeys(_, _)
orderedKeys(K, reverse) ==
    IF K = {} THEN <<>>
    ELSE LET first == CHOOSE k \in K : \A j \in K :
                          IF reverse THEN bytesCompare(j, k) <= 0 ELSE bytesCompare(k, j) <= 0
         IN  <<first>> \o orderedKeys(K \ {first}, reverse)

\* store.iterate({gte, lte, limit, reverse}): the keys of the range in key
\* order (descending when reverse), cut to `limit` entries
iterate(store, gte, lte, limit, reverse) ==
    LET inRange == {k \in DOMAIN store : bytesCompare(gte, k) <= 0 /\ bytesCompare(k, lte) <= 0}
        all == orderedKeys(inRange, reverse)
    IN  SubSeq(all, 1, IF Len(all) < limit THEN Len(all) ELSE limit)

\* bft_params.getBFTParameters(paramsStore, height)
getBFTParametersFromStore(store, height) ==
    LET results == iterate(store, intToBuffer(0), intToBuffer(height), 1, TRUE) IN
    IF Len(results) # 1
    THEN Throw("BFTParameterNotFoundError")
    ELSE Return(store[results[1]])

\* getBFTParameters asking for the height above
getBFTParameters_HeightPlusOne(store, height) == getBFTParametersFromStore(store, height + 1)

\* BFTAPI.getBFTParameters
getBFTParameters(store, height) == getBFTParametersFromStore(store, height)

\* utils.intToBuffer(MAX_UINT32, 4), written as its bytes: 2^32 - 1 is above
\* the integers of TLC
MAX_UINT32_Buffer == <<255, 255, 255, 255>>

\* getNextHeightBFTParameters with the range starting at the height itself
getNextHeightBFTParameters_FromHeight(store, height) ==
    LET results == iterate(store, intToBuffer(height), MAX_UINT32_Buffer, 1, FALSE) IN
    IF Len(results) # 1
    THEN Throw("BFTParameterNotFoundError")
    ELSE Return(readUInt32BE(results[1]))

\* BFTAPI.getNextHeightBFTParameters
getNextHeightBFTParameters(store, height) ==
    LET start == intToBuffer(height + 1)
        end == MAX_UINT32_Buffer
        results == iterate(store, start, end, 1, FALSE)
    IN  IF Len(results) # 1
        THEN Throw("BFTParameterNotFoundError")
        ELSE Return(readUInt32BE(results[1]))

\* Array.prototype.sort with a comparator on one field: a stable sort
RECURSIVE insertSorted(_, _, _)
insertSorted(sorted, v, field) ==
    IF sorted = <<>> THEN <<v>>
    ELSE IF v[field] < Head(sorted)[field]
    THEN <<v>> \o sorted
    ELSE <<Head(sorted)>> \o insertSorted(Tail(sorted), v, field)

RECURSIVE stableSort(_, _)
stableSort(list, field) ==
    IF list = <<>> THEN <<>>
    ELSE insertSorted(stableSort(SubSeq(list, 1, Len(list) - 1), field), list[Len(list)], field)

sortValidatorsByAddress(validators) == stableSort(validators, "address")
sortValidatorsByBLSKey(validators) == stableSort(validators, "blsKey")

\* the new set is the set in force: same validators in the same order
validatorsEqual(v1, v2) == v1 = v2

RECURSIVE sumBFTWeight(_)
sumBFTWeight(validators) ==
    IF validators = <<>> THEN 0
    ELSE Head(validators).bftWeight + sumBFTWeight(Tail(validators))

\* computeValidatorsHash encoding the pairs in the order of the list it is given
computeValidatorsHash_Unsorted(validators, certificateThreshold) ==
    [activeValidators |->
        [i \in 1..Len(validators) |->
            [blsKey |-> validators[i].blsKey, bftWeight |-> validators[i].bftWeight]],
     certificateThreshold |-> certificateThreshold]

\* utils.hash(codec.encode(validatorsHashInputSchema, input)): the digest is
\* modelled by its preimage (the hash is taken to be collision free)
computeValidatorsHash(validators, certificateThreshold) ==
    [activeValidators |->
        sortValidatorsByBLSKey([i \in 1..Len(validators) |->
            [blsKey |-> validators[i].blsKey, bftWeight |-> validators[i].bftWeight]]),
     certificateThreshold |-> certificateThreshold]

\* the current height taken from the prevoted watermark although blocks
\* are recorded
currentHeightOf_Prevoted(votes) == votes.maxHeightPrevoted

\* the height setBFTParameters takes for the block being executed
currentHeightOf(votes) ==
    IF Len(votes.blockBFTInfos) > 0
    THEN votes.blockBFTInfos[1].height
    ELSE votes.maxHeightPrevoted

\* every validator of the new set is entered as a new one
activeValidatorInfo_AlwaysNew(votes, validator, nextHeight) ==
    [address |-> validator.address, minActiveHeight |-> nextHeight,
     largestHeightPrecommit |-> nextHeight - 1]

\* the entry setBFTParameters keeps or creates for one validator
activeValidatorInfo(votes, validator, nextHeight) ==
    LET found == {i \in 1..Len(votes.activeValidatorsVoteInfo) :
                     votes.activeValidatorsVoteInfo[i].address = validator.address}
    IN  IF found # {}
        THEN votes.activeValidatorsVoteInfo[CHOOSE i \in found : \A j \in found : i <= j]
        ELSE [address |-> validator.address, minActiveHeight |-> nextHeight,
              largestHeightPrecommit |-> nextHeight - 1]

\* what a call leaves behind: its result and the two stores after it
Outcome(r, store, votes) == [result |-> r, paramsStore |-> store, bftVotes |-> votes]

\* applyBFTParameters writing the record under the current height
applyBFTParameters_AtCurrentHeight(store, votes, precommitThreshold, certificateThreshold, validators, aggregateBFTWeight) ==
    LET sorted == sortValidatorsByAddress(validators)
        currentHeight == currentHeightOf(votes)
        currentBFTParams == getBFTParameters(store, currentHeight)
        nextHeight == currentHeight + 1
        bftParams ==
            [prevoteThreshold |-> (2 * aggregateBFTWeight) \div 3 + 1,
             precommitThreshold |-> precommitThreshold,
             certificateThreshold |-> certificateThreshold,
             validators |-> sorted,
             validatorsHash |-> computeValidatorsHash(sorted, certificateThreshold)]
        nextActiveValidators ==
            sortValidatorsByAddress(
                [i \in 1..Len(sorted) |-> activeValidatorInfo(votes, sorted[i], nextHeight)])
    IN  IF /\ currentBFTParams.kind = "return"
           /\ validatorsEqual(currentBFTParams.value.validators, sorted)
           /\ currentBFTParams.value.precommitThreshold = precommitThreshold
           /\ currentBFTParams.value.certificateThreshold = certificateThreshold
        THEN Outcome(Return("void"), store, votes)
        ELSE Outcome(Return("void"),
                     [k \in DOMAIN store \cup {intToBuffer(currentHeight)} |->
                         IF k = intToBuffer(currentHeight) THEN bftParams ELSE store[k]],
                     [votes EXCEPT !.activeValidatorsVoteInfo = nextActiveValidators])

\* the part of setBFTParameters after validation: no-op or the two writes
applyBFTParameters(store, votes, precommitThreshold, certificateThreshold, validators, aggregateBFTWeight) ==
    LET sorted == sortValidatorsByAddress(validators)
        currentHeight == currentHeightOf(votes)
        currentBFTParams == getBFTParameters(store, currentHeight)
        nextHeight == currentHeight + 1
        bftParams ==
            [prevoteThreshold |-> (2 * aggregateBFTWeight) \div 3 + 1,
             precommitThreshold |-> precommitThreshold,
             certificateThreshold |-> certificateThreshold,
             validators |-> sorted,
             validatorsHash |-> computeValidatorsHash(sorted, certificateThreshold)]
        nextActiveValidators ==
            sortValidatorsByAddress(
                [i \in 1..Len(sorted) |-> activeValidatorInfo(votes, sorted[i], nextHeight)])
    IN  IF /\ currentBFTParams.kind = "return"
           /\ validatorsEqual(currentBFTParams.value.validators, sorted)
           /\ currentBFTParams.value.precommitThreshold = precommitThreshold
           /\ currentBFTParams.value.certificateThreshold = certificateThreshold
        THEN Outcome(Return("void"), store, votes)
        ELSE Outcome(Return("void"),
                     [k \in DOMAIN store \cup {intToBuffer(nextHeight)} |->
                         IF k = intToBuffer(nextHeight) THEN bftParams ELSE store[k]],
                     [votes EXCEPT !.activeValidatorsVoteInfo = nextActiveValidators])

\* setBFTParameters checking the certificate threshold only after the writes
setBFTParameters_LateCheck(store, votes, precommitThreshold, certificateThreshold, validators) ==
    LET aggregateBFTWeight == sumBFTWeight(validators)
        written == applyBFTParameters(store, votes, precommitThreshold, certificateThreshold, validators, aggregateBFTWeight)
    IN  IF Len(validators) > batchSize
        THEN Outcome(Throw("Invalid validators size."), store, votes)
        ELSE IF \E i \in 1..Len(validators) : validators[i].bftWeight <= 0
        THEN Outcome(Throw("Invalid BFT weight."), store, votes)
        ELSE IF aggregateBFTWeight \div 3 + 1 > precommitThreshold \/ precommitThreshold > aggregateBFTWeight
        THEN Outcome(Throw("Invalid precommitThreshold input."), store, votes)
        ELSE IF aggregateBFTWeight \div 3 + 1 > certificateThreshold \/ certificateThreshold > aggregateBFTWeight
        THEN Outcome(Throw("Invalid certificateThreshold input."), written.paramsStore, written.bftVotes)
        ELSE written

\* setBFTParameters accepting a threshold of exactly a third of the weight
setBFTParameters_ThirdAccepted(store, votes, precommitThreshold, certificateThreshold, validators) ==
    LET aggregateBFTWeight == sumBFTWeight(validators) IN
    IF Len(validators) > batchSize
    THEN Outcome(Throw("Invalid validators size."), store, votes)
    ELSE IF \E i \in 1..Len(validators) : validators[i].bftWeight <= 0
    THEN Outcome(Throw("Invalid BFT weight."), store, votes)
    ELSE IF aggregateBFTWeight \div 3 > precommitThreshold \/ precommitThreshold > aggregateBFTWeight
    THEN Outcome(Throw("Invalid precommitThreshold input."), store, votes)
    ELSE IF aggregateBFTWeight \div 3 > certificateThreshold \/ certificateThreshold > aggregateBFTWeight
    THEN Outcome(Throw("Invalid certificateThreshold input."), store, votes)
    ELSE applyBFTParameters(store, votes, precommitThreshold, certificateThreshold, validators, aggregateBFTWeight)

\* BFTAPI.setBFTParameters
setBFTParameters(store, votes, precommitThreshold, certificateThreshold, validators) ==
    LET aggregateBFTWeight == sumBFTWeight(validators) IN
    IF Len(validators) > batchSize
    THEN Outcome(Throw("Invalid validators size."), store, votes)
    ELSE IF \E i \in 1..Len(validators) : validators[i].bftWeight <= 0
    THEN Outcome(Throw("Invalid BFT weight."), store, votes)
    ELSE IF aggregateBFTWeight \div 3 + 1 > precommitThreshold \/ precommitThreshold > aggregateBFTWeight
    THEN Outcome(Throw("Invalid precommitThreshold input."), store, votes)
    ELSE IF aggregateBFTWeight \div 3 + 1 > certificateThreshold \/ certificateThreshold > aggregateBFTWeight
    THEN Outcome(Throw("Invalid certificateThreshold input."), store, votes)
    ELSE applyBFTParameters(store, votes, precommitThreshold, certificateThreshold, validators, aggregateBFTWeight)

(***************************************************************************)
(* Specification of the BFT stores: blocks are recorded one after the      *)
(* other, and between them the methods are called one at a time (block     *)
(* processing is sequential).                                              *)
(***************************************************************************)
InitBFT ==
    /\ paramsStore = EmptyStore
    /\ \E genesisHeight \in GenesisHeights : bftVotes = GenesisVotesAt(genesisHeight)
    /\ precedingSetCall = NoCall
    /\ DBIdle
    /\ ConnectorIdle
    /\ call = NoCall
    /\ result = None

\* the ledger records the block being executed: its BlockBFTInfo is put in
\* front of blockBFTInfos, and the window keeps 3 * batchSize entries
RecordBlock ==
    \E generatorAddress \in GeneratorAddresses :
        /\ call = NoCall
        /\ Len(bftVotes.blockBFTInfos) < MaxBlocks
        /\ LET info == [height |-> currentHeightOf(bftVotes) + 1,
                        generatorAddress |-> generatorAddress,
                        maxHeightGenerated |-> 0,
                        maxHeightPrevoted |-> bftVotes.maxHeightPrevoted,
                        prevoteWeight |-> 0, precommitWeight |-> 0]
               infos == <<info>> \o bftVotes.blockBFTInfos
           IN  bftVotes' = [bftVotes EXCEPT !.blockBFTInfos =
                               SubSeq(infos, 1, IF Len(infos) > 3 * batchSize
                                                THEN 3 * batchSize ELSE Len(infos))]
        /\ UNCHANGED <<dbVars, paramsStore, precedingSetCall, call, result, connectorVars>>

SetBFTParameters ==
    \E precommitThreshold \in Thresholds, certificateThreshold \in Thresholds,
       validators \in ValidatorLists :
        /\ call = NoCall
        /\ LET out == setBFTParameters(paramsStore, bftVotes, precommitThreshold,
                                       certificateThreshold, validators)
           IN  /\ paramsStore' = out.paramsStore
               /\ bftVotes' = out.bftVotes
               /\ result' = out.result
        /\ call' = [op |-> "setBFTParameters", precommitThreshold |-> precommitThreshold,
                    certificateThreshold |-> certificateThreshold, validators |-> validators]
        /\ UNCHANGED <<dbVars, precedingSetCall, connectorVars>>

GetBFTParameters ==
    \E height \in {bftVotes.maxHeightPrevoted + d : d \in 0..(MaxBlocks + 2)} :
        /\ call = NoCall
        /\ call' = [op |-> "getBFTParameters", height |-> height]
        /\ result' = getBFTParameters(paramsStore, height)
        /\ UNCHANGED <<dbVars, bftVars, connectorVars>>

\* the caller has taken the result; the next call can start
ReturnToCaller ==
    /\ call # NoCall
    /\ call' = NoCall
    /\ result' = None
    /\ UNCHANGED <<dbVars, bftVars, connectorVars>>

NextBFT ==
    \/ RecordBlock
    \/ SetBFTParameters
    \/ GetBFTParameters
    \/ ReturnToCaller

SpecBFT == InitBFT /\ [][NextBFT]_vars

(***************************************************************************)
(* Claims on the BFT parameters store                                      *)
(***************************************************************************)
GetCalled == call.op = "getBFTParameters"
SetCalled == call.op = "setBFTParameters"

\* the heights under which a record is stored
StoredHeights == {readUInt32BE(k) : k \in DOMAIN paramsStore}

HeightsUpTo(h) == {k \in StoredHeights : k <= h}

\* C8: getBFTParameters(h) returns the record stored under the greatest
\* stored height that is <= h, and fails with BFTParameterNotFoundError when
\* no stored height is <= h.
C8_GreatestKeyAtOrBelow ==
    GetCalled =>
        IF HeightsUpTo(call.height) # {}
        THEN result = Return(paramsStore[intToBuffer(MaxOf(HeightsUpTo(call.height)))])
        ELSE result = Throw("BFTParameterNotFoundError")

\* a lookup between stored heights, with a record stored above the height
\* asked for and the stored keys differing in their second lowest byte
C8_Witness ==
    /\ GetCalled
    /\ call.height = 256
    /\ {255, 256, 257} \subseteq StoredHeights
    /\ paramsStore[intToBuffer(256)] # paramsStore[intToBuffer(257)]
    /\ result = Return(paramsStore[intToBuffer(256)])

\* the addresses of a list of validators or of vote infos, in order
AddressesOf(list) == [i \in 1..Len(list) |-> list[i].address]

\* C9: a rejected setBFTParameters call leaves the parameters store and the
\* votes record as they were, and a call that writes a parameter record also
\* writes the active-validator index of that record's validators.
C9_RejectedCallWritesNothing ==
    [][ (call = NoCall /\ call'.op = "setBFTParameters") =>
            /\ result'.kind = "throw" => (paramsStore' = paramsStore /\ bftVotes' = bftVotes)
            /\ paramsStore' # paramsStore =>
                   LET written == intToBuffer(currentHeightOf(bftVotes) + 1) IN
                   /\ \A k \in DOMAIN paramsStore : k # written => paramsStore'[k] = paramsStore[k]
                   /\ AddressesOf(bftVotes'.activeValidatorsVoteInfo)
                          = AddressesOf(paramsStore'[written].validators) ]_vars

\* a call rejected for its certificate threshold alone, on stores that hold
\* records and an index
C9_Witness ==
    /\ SetCalled
    /\ result = Throw("Invalid certificateThreshold input.")
    /\ paramsStore # EmptyStore
    /\ bftVotes.activeValidatorsVoteInfo # <<>>

\* floor(W/3)+1 <= t <= W
InThresholdRange(t, W) == W \div 3 + 1 <= t /\ t <= W

\* C10: a call whose precommit or certificate threshold is outside
\* [floor(W/3)+1, W] is rejected, and every stored record has
\* prevoteThreshold = floor(2W/3)+1 and both thresholds inside that range,
\* W being the sum of the weights of its validators.
C10_ThresholdRules ==
    /\ SetCalled =>
           LET W == sumBFTWeight(call.validators) IN
           (~InThresholdRange(call.precommitThreshold, W)
               \/ ~InThresholdRange(call.certificateThreshold, W))
           => result.kind = "throw"
    /\ \A k \in DOMAIN paramsStore :
           LET W == sumBFTWeight(paramsStore[k].validators) IN
           /\ paramsStore[k].prevoteThreshold = (2 * W) \div 3 + 1
           /\ InThresholdRange(paramsStore[k].precommitThreshold, W)
           /\ InThresholdRange(paramsStore[k].certificateThreshold, W)

\* a precommit threshold of exactly a third of the weight is rejected while
\* a record is stored
C10_Witness ==
    /\ SetCalled
    /\ sumBFTWeight(call.validators) = 3
    /\ Len(call.validators) <= batchSize
    /\ call.precommitThreshold = 1
    /\ result = Throw("Invalid precommitThreshold input.")
    /\ paramsStore # EmptyStore

\* history of the calls: the latest successful call of setBFTParameters is
\* kept with the index it left
succeededSetCall(preceding, r, c, votes) ==
    IF r.kind # "return" THEN preceding
    ELSE [op |-> c.op, precommitThreshold |-> c.precommitThreshold,
          certificateThreshold |-> c.certificateThreshold, validators |-> c.validators,
          activeValidatorsVoteInfo |-> votes.activeValidatorsVoteInfo]

\* setBFTParameters called by a caller that keeps what it passed
\* the arguments of the calls of a caller that repeats them: two orders of
\* one validator set, another set, and a list that is refused
KeptLists == {validators \in ValidatorLists : Len(validators) <= batchSize /\ \A i \in 1..Len(validators) : validators[i].bftWeight >= 0}
KeptThresholds == {t \in Thresholds : t > 1}

SetBFTParametersKept ==
    \E precommitThreshold \in KeptThresholds, certificateThreshold \in KeptThresholds,
       validators \in KeptLists :
        /\ call = NoCall
        /\ LET out == setBFTParameters(paramsStore, bftVotes, precommitThreshold,
                                       certificateThreshold, validators)
           IN  /\ paramsStore' = out.paramsStore
               /\ bftVotes' = out.bftVotes
               /\ result' = out.result
        /\ call' = [op |-> "setBFTParameters", precommitThreshold |-> precommitThreshold,
                    certificateThreshold |-> certificateThreshold, validators |-> validators]
        /\ precedingSetCall' = succeededSetCall(precedingSetCall, result', call', bftVotes')
        /\ UNCHANGED <<dbVars, connectorVars>>

GetNextHeightBFTParameters ==
    \E height \in {bftVotes.maxHeightPrevoted + d : d \in 0..(MaxBlocks + 2)} :
        /\ call = NoCall
        /\ call' = [op |-> "getNextHeightBFTParameters", height |-> height]
        /\ result' = getNextHeightBFTParameters(paramsStore, height)
        /\ UNCHANGED <<dbVars, bftVars, connectorVars>>

NextBFTKept ==
    \/ RecordBlock
    \/ SetBFTParametersKept
    \/ GetNextHeightBFTParameters
    \/ ReturnToCaller

\* the BFT stores under blocks, calls of setBFTParameters with the history of
\* the successful ones, and lookups of the next stored height
SpecBFTKept == InitBFT /\ [][NextBFTKept]_vars

\* the height of the newest recorded block, or the prevoted watermark when
\* no block is recorded
NewestHeight ==
    IF bftVotes.blockBFTInfos = <<>> THEN bftVotes.maxHeightPrevoted
    ELSE bftVotes.blockBFTInfos[1].height

\* the record in force at height h in a store, None without one
RecordInForce(store, h) ==
    LET below == {k \in {readUInt32BE(b) : b \in DOMAIN store} : k <= h} IN
    IF below = {} THEN None ELSE store[intToBuffer(MaxOf(below))]

\* a record holds the validators and thresholds of a call
SameParameters(record, c) ==
    /\ record # None
    /\ record.validators = sortValidatorsByAddress(c.validators)
    /\ record.precommitThreshold = c.precommitThreshold
    /\ record.certificateThreshold = c.certificateThreshold

\* this step is a successful call of setBFTParameters with parameters other
\* than those in force at the current height
SetChangesParameters ==
    /\ call = NoCall
    /\ call'.op = "setBFTParameters"
    /\ result'.kind = "return"
    /\ ~SameParameters(RecordInForce(paramsStore, NewestHeight), call')

\* C32: after a successful setBFTParameters the parameters in force at the
\* height after the newest recorded block are those of the call, also when
\* it is the last of several calls made under the same block.
C32_CallInForceAtNextHeight ==
    (SetCalled /\ result.kind = "return") =>
        SameParameters(RecordInForce(paramsStore, NewestHeight + 1), call)

\* C13: a successful setBFTParameters that is no no-op stores its record
\* under the height of the newest recorded block plus 1 (the prevoted
\* watermark plus 1 when no block is recorded), and no call writes under
\* another key.
C13_StoredAtNextHeight ==
    [][ (call = NoCall /\ call'.op = "setBFTParameters") =>
            LET key == intToBuffer(NewestHeight + 1) IN
            /\ DOMAIN paramsStore \subseteq DOMAIN paramsStore'
            /\ \A k \in DOMAIN paramsStore' :
                   k # key => (k \in DOMAIN paramsStore /\ paramsStore'[k] = paramsStore[k])
            /\ SetChangesParameters =>
                   (key \in DOMAIN paramsStore' /\ SameParameters(paramsStore'[key], call')) ]_vars

\* the heights from the one before the genesis block, below which nothing
\* is stored, to the current height
HeightsToCurrent ==
    {h \in (bftVotes.maxHeightPrevoted - 1)..NewestHeight : h >= 0}

\* C33: a call of setBFTParameters leaves every parameter record under a
\* key other than the next height as it was, and with them the parameters in
\* force at every height up to the current one; the three watermarks and
\* blockBFTInfos are unchanged.
C33_OnlyNextHeightAndIndex ==
    [][ (call = NoCall /\ call'.op = "setBFTParameters") =>
            /\ \A k \in (DOMAIN paramsStore \cup DOMAIN paramsStore') \ {intToBuffer(NewestHeight + 1)} :
                   /\ k \in DOMAIN paramsStore
                   /\ k \in DOMAIN paramsStore'
                   /\ paramsStore'[k] = paramsStore[k]
            /\ \A h \in HeightsToCurrent :
                   RecordInForce(paramsStore', h) = RecordInForce(paramsStore, h)
            /\ bftVotes'.maxHeightPrevoted = bftVotes.maxHeightPrevoted
            /\ bftVotes'.maxHeightPrecommitted = bftVotes.maxHeightPrecommitted
            /\ bftVotes'.maxHeightCertified = bftVotes.maxHeightCertified
            /\ bftVotes'.blockBFTInfos = bftVotes.blockBFTInfos ]_vars

\* a call has written the record of the next height above a record in
\* force at the current height, with blocks recorded
C33_Witness ==
    /\ SetCalled
    /\ result.kind = "return"
    /\ Len(bftVotes.blockBFTInfos) >= 1
    /\ intToBuffer(NewestHeight + 1) \in DOMAIN paramsStore
    /\ intToBuffer(NewestHeight) \in DOMAIN paramsStore
    /\ SameParameters(paramsStore[intToBuffer(NewestHeight + 1)], call)
    /\ paramsStore[intToBuffer(NewestHeight)] # paramsStore[intToBuffer(NewestHeight + 1)]

\* a record stored above recorded blocks, with the prevoted watermark lower
C13_Witness ==
    /\ SetCalled
    /\ result.kind = "return"
    /\ Len(bftVotes.blockBFTInfos) = 2
    /\ bftVotes.maxHeightPrevoted < NewestHeight
    /\ intToBuffer(NewestHeight + 1) \in DOMAIN paramsStore
    /\ SameParameters(paramsStore[intToBuffer(NewestHeight + 1)], call)
    /\ ~SameParameters(RecordInForce(paramsStore, NewestHeight), call)

\* this step is a call of setBFTParameters with the arguments of the
\* successful call before it
SetRepeatsPrecedingCall ==
    /\ call = NoCall
    /\ call'.op = "setBFTParameters"
    /\ precedingSetCall.op = "setBFTParameters"
    /\ call'.validators = precedingSetCall.validators
    /\ call'.precommitThreshold = precedingSetCall.precommitThreshold
    /\ call'.certificateThreshold = precedingSetCall.certificateThreshold

\* C14: a call of setBFTParameters with the validators and thresholds of the
\* preceding successful call creates no additional parameter record and
\* leaves activeValidatorsVoteInfo as it was after that call.
C14_RepeatedCallChangesNothing ==
    [][ SetRepeatsPrecedingCall =>
            /\ DOMAIN paramsStore' = DOMAIN paramsStore
            /\ bftVotes'.activeValidatorsVoteInfo = precedingSetCall.activeValidatorsVoteInfo ]_vars

\* the stored heights above h
HeightsAbove(h) == {k \in StoredHeights : k > h}

MinOf(S) == CHOOSE x \in S : \A y \in S : x <= y

\* C17: getNextHeightBFTParameters(h) returns the smallest stored height
\* that is > h, also when h is a stored height, and fails with
\* BFTParameterNotFoundError when no stored height is > h.
C17_SmallestKeyAbove ==
    call.op = "getNextHeightBFTParameters" =>
        IF HeightsAbove(call.height) # {}
        THEN result = Return(MinOf(HeightsAbove(call.height)))
        ELSE result = Throw("BFTParameterNotFoundError")

\* a lookup at a stored height, with a record stored below and one above,
\* the stored keys differing in their second lowest byte
C17_Witness ==
    /\ call.op = "getNextHeightBFTParameters"
    /\ call.height = 256
    /\ {255, 256, 257} \subseteq StoredHeights
    /\ result = Return(257)

\* C15: after a successful setBFTParameters that is no no-op the index has
\* one entry per validator of the new set, in their order; a validator that
\* had an entry keeps it, another gets minActiveHeight = nextHeight and
\* largestHeightPrecommit = nextHeight - 1.
C15_IndexKeepsOrSeeds ==
    [][ SetChangesParameters =>
            LET old == bftVotes.activeValidatorsVoteInfo
                new == bftVotes'.activeValidatorsVoteInfo
                validators == sortValidatorsByAddress(call'.validators)
                nextHeight == NewestHeight + 1
            IN  /\ Len(new) = Len(validators)
                /\ \A i \in 1..Len(validators) :
                       /\ new[i].address = validators[i].address
                       /\ IF \E j \in 1..Len(old) : old[j].address = validators[i].address
                          THEN \E j \in 1..Len(old) : old[j] = new[i]
                          ELSE /\ new[i].minActiveHeight = nextHeight
                               /\ new[i].largestHeightPrecommit = nextHeight - 1 ]_vars

\* an index with an entry kept from an earlier height and an entry seeded now
C15_Witness ==
    /\ SetCalled
    /\ result.kind = "return"
    /\ AddressesOf(bftVotes.activeValidatorsVoteInfo)
           = AddressesOf(sortValidatorsByAddress(call.validators))
    /\ \E i, j \in 1..Len(bftVotes.activeValidatorsVoteInfo) :
           /\ bftVotes.activeValidatorsVoteInfo[i].minActiveHeight < NewestHeight + 1
           /\ bftVotes.activeValidatorsVoteInfo[j].minActiveHeight = NewestHeight + 1
           /\ bftVotes.activeValidatorsVoteInfo[j].largestHeightPrecommit = NewestHeight

\* a validator's weight is counted and refused only when negative
NonNegativeWeights(validators) == \A i \in 1..Len(validators) : validators[i].bftWeight >= 0

\* C11: setBFTParameters refuses a list for its weights only when a weight
\* is negative; a list of weights >= 0 within the batch size, with both
\* thresholds valid for the sum of the weights, is accepted.
C11_ZeroWeightAccepted ==
    SetCalled =>
        LET W == sumBFTWeight(call.validators) IN
        /\ result = Throw("Invalid BFT weight.") => ~NonNegativeWeights(call.validators)
        /\ ( /\ Len(call.validators) <= batchSize
             /\ NonNegativeWeights(call.validators)
             /\ InThresholdRange(call.precommitThreshold, W)
             /\ InThresholdRange(call.certificateThreshold, W) )
           => result.kind = "return"

(***************************************************************************)
(* setBFTParameters on the stores of a new chain: the validation of the    *)
(* list of validators, for lists with repeated addresses and BLS keys      *)
(***************************************************************************)
\* lists with a repeated address, a repeated BLS key, and the all-zero BLS
\* key (Buffer.alloc(48, 0), here 0) repeated
RepeatingLists ==
    { <<Validator(1, 11, 1), Validator(1, 12, 1)>>,
      <<Validator(1, 11, 1), Validator(2, 11, 1)>>,
      <<Validator(1, 0, 1), Validator(2, 0, 1)>>,
      <<Validator(2, 12, 1), Validator(1, 11, 1)>>,
      <<Validator(2, 0, 1), Validator(2, 0, 1)>>,
      <<Validator(1, 11, 2), Validator(2, 12, 1), Validator(1, 13, 1)>> }

InitBFTGenesis ==
    /\ paramsStore = EmptyStore
    /\ \E genesisHeight \in {0} \cup GenesisHeights : bftVotes = GenesisVotesAt(genesisHeight)
    /\ precedingSetCall = NoCall
    /\ DBIdle
    /\ ConnectorIdle
    /\ call = NoCall
    /\ result = None

\* the first call of setBFTParameters of a chain
SetBFTParametersAtGenesis ==
    \E precommitThreshold \in Thresholds, certificateThreshold \in Thresholds,
       validators \in ValidatorLists \cup RepeatingLists :
        /\ call = NoCall
        /\ LET out == setBFTParameters(paramsStore, bftVotes, precommitThreshold,
                                       certificateThreshold, validators)
           IN  /\ paramsStore' = out.paramsStore
               /\ bftVotes' = out.bftVotes
               /\ result' = out.result
        /\ call' = [op |-> "setBFTParameters", precommitThreshold |-> precommitThreshold,
                    certificateThreshold |-> certificateThreshold, validators |-> validators]
        /\ UNCHANGED <<dbVars, precedingSetCall, connectorVars>>

NextBFTGenesis == SetBFTParametersAtGenesis

SpecBFTGenesis == InitBFTGenesis /\ [][NextBFTGenesis]_vars

\* two entries of the list have the same address
RepeatsAddress(validators) ==
    \E i, j \in 1..Len(validators) : i # j /\ validators[i].address = validators[j].address

\* two entries of the list have the same BLS key, other than the all-zero key
RepeatsBLSKey(validators) ==
    \E i, j \in 1..Len(validators) :
        i # j /\ validators[i].blsKey = validators[j].blsKey /\ validators[i].blsKey # 0

\* C12: setBFTParameters rejects every list with a repeated address and
\* every list with a repeated BLS key other than the all-zero key; a valid
\* list whose only repeated BLS key is the all-zero key is accepted.
C12_RepeatedKeysRejected ==
    SetCalled =>
        /\ (RepeatsAddress(call.validators) \/ RepeatsBLSKey(call.validators))
               => result.kind = "throw"
        /\ ( /\ ~RepeatsAddress(call.validators) /\ ~RepeatsBLSKey(call.validators)
             /\ Len(call.validators) <= batchSize
             /\ \A i \in 1..Len(call.validators) : call.validators[i].bftWeight > 0
             /\ InThresholdRange(call.precommitThreshold, sumBFTWeight(call.validators))
             /\ InThresholdRange(call.certificateThreshold, sumBFTWeight(call.validators)) )
           => result.kind = "return"

\* C16: in every stored parameter record the validators are in ascending
\* order of address and no address occurs twice.
C16_StoredValidatorsSortedDistinct ==
    \A k \in DOMAIN paramsStore :
        LET validators == paramsStore[k].validators IN
        \A i, j \in 1..Len(validators) :
            i < j => validators[i].address < validators[j].address

(***************************************************************************)
(* BFTAPI.areHeadersContradicting, as a function of two block headers      *)
(***************************************************************************)
\* the values of a header field that tells apart two headers with the same
\* heights and generator
TransactionRoots == {1, 2}

\* the generators of the headers compared
HeaderGenerators == {1, 2}

\* a block header with the fields the comparison reads; its id is the hash
\* of its content, which differs exactly when the content differs
BFTHeader(height, maxHeightPrevoted, maxHeightGenerated, generatorAddress, transactionRoot) ==
    [id |-> <<height, maxHeightPrevoted, maxHeightGenerated, generatorAddress, transactionRoot>>,
     height |-> height,
     maxHeightPrevoted |-> maxHeightPrevoted,
     maxHeightGenerated |-> maxHeightGenerated,
     generatorAddress |-> generatorAddress,
     transactionRoot |-> transactionRoot]

BFTHeaders ==
    {BFTHeader(h, p, g, a, t) : h \in Heights, p \in Heights, g \in Heights,
                                a \in HeaderGenerators, t \in TransactionRoots}

\* utils.areDistinctHeadersContradicting: the later header is the one with
\* the larger maxHeightGenerated, then maxHeightPrevoted, then height
areDistinctHeadersContradicting(b1, b2) ==
    LET swap == \/ b1.maxHeightGenerated > b2.maxHeightGenerated
                \/ /\ b1.maxHeightGenerated = b2.maxHeightGenerated
                   /\ b1.maxHeightPrevoted > b2.maxHeightPrevoted
                \/ /\ b1.maxHeightGenerated = b2.maxHeightGenerated
                   /\ b1.maxHeightPrevoted = b2.maxHeightPrevoted
                   /\ b1.height > b2.height
        earlierBlock == IF swap THEN b2 ELSE b1
        laterBlock == IF swap THEN b1 ELSE b2
    IN  IF earlierBlock.generatorAddress # laterBlock.generatorAddress THEN FALSE
        ELSE IF /\ earlierBlock.maxHeightPrevoted = laterBlock.maxHeightPrevoted
                /\ earlierBlock.height >= laterBlock.height THEN TRUE
        ELSE IF earlierBlock.height > laterBlock.maxHeightGenerated THEN TRUE
        ELSE IF earlierBlock.maxHeightPrevoted > laterBlock.maxHeightPrevoted THEN TRUE
        ELSE FALSE

\* areHeadersContradicting without the comparison of the ids
areHeadersContradicting_NoIDTest(bftHeader1, bftHeader2) ==
    areDistinctHeadersContradicting(bftHeader1, bftHeader2)

\* areHeadersContradicting with the comparison of the ids inverted
areHeadersContradicting_InvertedIDTest(bftHeader1, bftHeader2) ==
    IF bftHeader1.id # bftHeader2.id THEN FALSE
    ELSE areDistinctHeadersContradicting(bftHeader1, bftHeader2)

\* BFTAPI.areHeadersContradicting
areHeadersContradicting(bftHeader1, bftHeader2) ==
    IF bftHeader1.id = bftHeader2.id THEN FALSE
    ELSE areDistinctHeadersContradicting(bftHeader1, bftHeader2)

InitHeaders ==
    /\ BFTIdle
    /\ DBIdle
    /\ ConnectorIdle
    /\ call = NoCall
    /\ result = None

AreHeadersContradicting ==
    /\ call = NoCall
    /\ \E bftHeader1 \in BFTHeaders, bftHeader2 \in BFTHeaders :
           /\ call' = [op |-> "areHeadersContradicting", bftHeader1 |-> bftHeader1,
                       bftHeader2 |-> bftHeader2]
           /\ result' = Return(areHeadersContradicting(bftHeader1, bftHeader2))
    /\ UNCHANGED <<dbVars, bftVars, connectorVars>>

NextHeaders == AreHeadersContradicting

SpecHeaders == InitHeaders /\ [][NextHeaders]_vars

HeadersCompared == call.op = "areHeadersContradicting"

\* C19: areHeadersContradicting is false for two headers with the same id,
\* whatever their heights and generator.
C19_SameHeaderNeverContradicts ==
    (HeadersCompared /\ call.bftHeader1.id = call.bftHeader2.id) => result = Return(FALSE)

\* a header compared with itself whose fields contradict under the rule for
\* distinct headers
C19_Witness ==
    /\ HeadersCompared
    /\ call.bftHeader1.id = call.bftHeader2.id
    /\ call.bftHeader1.height > call.bftHeader1.maxHeightGenerated
    /\ call.bftHeader1.maxHeightPrevoted > 0
    /\ result = Return(FALSE)

\* C20: for two headers with different ids, areHeadersContradicting is false
\* when the generators differ, and true when the generator, the height and
\* maxHeightPrevoted are the same.
C20_GeneratorHeightPrevoted ==
    (HeadersCompared /\ call.bftHeader1.id # call.bftHeader2.id) =>
        /\ call.bftHeader1.generatorAddress # call.bftHeader2.generatorAddress
               => result = Return(FALSE)
        /\ ( /\ call.bftHeader1.generatorAddress = call.bftHeader2.generatorAddress
             /\ call.bftHeader1.height = call.bftHeader2.height
             /\ call.bftHeader1.maxHeightPrevoted = call.bftHeader2.maxHeightPrevoted )
               => result = Return(TRUE)

\* two headers of one generator at one height with one maxHeightPrevoted,
\* differing in maxHeightGenerated
C20_Witness ==
    /\ HeadersCompared
    /\ call.bftHeader1.id # call.bftHeader2.id
    /\ call.bftHeader1.generatorAddress = call.bftHeader2.generatorAddress
    /\ call.bftHeader1.height = call.bftHeader2.height
    /\ call.bftHeader1.maxHeightPrevoted = call.bftHeader2.maxHeightPrevoted
    /\ call.bftHeader1.maxHeightGenerated < call.bftHeader2.maxHeightGenerated
    /\ result = Return(TRUE)

(***************************************************************************)
(* The votes ledger under processed blocks: each block is recorded and the *)
(* watermarks are advanced, setBFTParameters is called between blocks, and *)
(* getBFTHeights reads the watermarks.                                     *)
(***************************************************************************)
MaxVoteBlocks == 3

\* the generators of the processed blocks
VoteGenerators == {1, 2}

\* the calls of setBFTParameters made between the blocks: a set of two
\* validators that needs both to prevote, and a set of one validator
VoteParameterCalls ==
    { [precommitThreshold |-> 2, certificateThreshold |-> 2,
       validators |-> <<Validator(1, 11, 2), Validator(2, 12, 1)>>],
      [precommitThreshold |-> 1, certificateThreshold |-> 1,
       validators |-> <<Validator(2, 12, 1)>>] }

\* recordBlock: the BlockBFTInfo of the header is put in front of
\* blockBFTInfos, and the window keeps 3 * batchSize entries
insertBlockBFTInfo(votes, header) ==
    LET info == [height |-> header.height,
                 generatorAddress |-> header.generatorAddress,
                 maxHeightGenerated |-> header.maxHeightGenerated,
                 maxHeightPrevoted |-> header.maxHeightPrevoted,
                 prevoteWeight |-> 0, precommitWeight |-> 0]
        infos == <<info>> \o votes.blockBFTInfos
    IN  [votes EXCEPT !.blockBFTInfos =
            SubSeq(infos, 1, IF Len(infos) > 3 * batchSize THEN 3 * batchSize ELSE Len(infos))]

\* the height up to which the generator of the newest block has prevoted on
\* another chain: its chain of earlier blocks is followed through
\* maxHeightGenerated as far as the window reaches
RECURSIVE heightNotPrevotedFrom(_, _)
heightNotPrevotedFrom(votes, heightPreviousBlock) ==
    LET infos == votes.blockBFTInfos
        offset == infos[1].height - heightPreviousBlock
    IN  IF offset < Len(infos)
        THEN IF \/ infos[offset + 1].generatorAddress # infos[1].generatorAddress
                \/ infos[offset + 1].maxHeightGenerated >= heightPreviousBlock
             THEN heightPreviousBlock
             ELSE heightNotPrevotedFrom(votes, infos[offset + 1].maxHeightGenerated)
        ELSE infos[Len(infos)].height - 1

getHeightNotPrevoted(votes) == heightNotPrevotedFrom(votes, votes.blockBFTInfos[1].maxHeightGenerated)

\* the parameters in force at the height of every recorded block are stored
\* and give the generator of the newest block a weight wherever it votes
parametersCover(store, votes, minHeight) ==
    \A i \in 1..Len(votes.blockBFTInfos) :
        LET params == getBFTParameters(store, votes.blockBFTInfos[i].height) IN
        /\ params.kind = "return"
        /\ votes.blockBFTInfos[i].height >= minHeight =>
               \E j \in 1..Len(params.value.validators) :
                   params.value.validators[j].address = votes.blockBFTInfos[1].generatorAddress

\* the weight of a validator in the parameters in force at a height
bftWeightAt(store, height, address) ==
    LET validators == getBFTParameters(store, height).value.validators
        j == CHOOSE j \in 1..Len(validators) : validators[j].address = address
    IN  validators[j].bftWeight

MaxOfTwo(a, b) == IF a >= b THEN a ELSE b

\* the first of a set of positions of a list
MinOfIndexes(S) == CHOOSE i \in S : \A j \in S : i <= j

\* the precommits and prevotes the newest block implies are added to the
\* recorded blocks; a precommit goes to the blocks that have reached the
\* prevote threshold, and the generator's largestHeightPrecommit follows
updatePrevotesPrecommits(store, votes) ==
    LET infos == votes.blockBFTInfos
        generator == infos[1].generatorAddress
        active == {i \in 1..Len(votes.activeValidatorsVoteInfo) :
                      votes.activeValidatorsVoteInfo[i].address = generator}
    IN  IF infos = <<>> \/ active = {} THEN votes
        ELSE
        LET index == CHOOSE i \in active : TRUE
            validatorInfo == votes.activeValidatorsVoteInfo[index]
            minPrecommitHeight ==
                MaxOfTwo(validatorInfo.minActiveHeight,
                         MaxOfTwo(getHeightNotPrevoted(votes) + 1, validatorInfo.largestHeightPrecommit + 1))
            minPrevoteHeight == MaxOfTwo(infos[1].maxHeightGenerated + 1, validatorInfo.minActiveHeight)
            precommits(i) ==
                /\ infos[i].height >= minPrecommitHeight
                /\ infos[i].prevoteWeight >= getBFTParameters(store, infos[i].height).value.prevoteThreshold
            precommitted == {i \in 1..Len(infos) : precommits(i)}
            newInfos ==
                [i \in 1..Len(infos) |->
                    [infos[i] EXCEPT
                        !.precommitWeight = @ + (IF i \in precommitted
                                                 THEN bftWeightAt(store, infos[i].height, generator) ELSE 0),
                        !.prevoteWeight = @ + (IF infos[i].height >= minPrevoteHeight
                                               THEN bftWeightAt(store, infos[i].height, generator) ELSE 0)]]
            newActive ==
                IF precommitted = {} THEN votes.activeValidatorsVoteInfo
                ELSE [votes.activeValidatorsVoteInfo EXCEPT
                         ![index].largestHeightPrecommit = infos[MinOfIndexes(precommitted)].height]
        IN  [votes EXCEPT !.blockBFTInfos = newInfos, !.activeValidatorsVoteInfo = newActive]

\* maxHeightPrevoted becomes the height of the newest recorded block that has
\* reached the prevote threshold of its height
updateMaxHeightPrevoted(store, votes) ==
    LET reached == {i \in 1..Len(votes.blockBFTInfos) :
                       votes.blockBFTInfos[i].prevoteWeight >=
                           getBFTParameters(store, votes.blockBFTInfos[i].height).value.prevoteThreshold}
    IN  IF reached = {} THEN votes
        ELSE [votes EXCEPT !.maxHeightPrevoted = votes.blockBFTInfos[MinOfIndexes(reached)].height]

\* maxHeightPrecommitted becomes the height of the newest recorded block that
\* has reached the precommit threshold of its height
updateMaxHeightPrecommitted(store, votes) ==
    LET reached == {i \in 1..Len(votes.blockBFTInfos) :
                       votes.blockBFTInfos[i].precommitWeight >=
                           getBFTParameters(store, votes.blockBFTInfos[i].height).value.precommitThreshold}
    IN  IF reached = {} THEN votes
        ELSE [votes EXCEPT !.maxHeightPrecommitted = votes.blockBFTInfos[MinOfIndexes(reached)].height]

\* maxHeightCertified becomes the highest height <= maxHeightPrecommitted
\* of the heights an aggregate commit reaching the certificate threshold is
\* known for, when that is above it
updateMaxHeightCertified(votes, certifiableHeights) ==
    LET covered == {h \in certifiableHeights :
                       h <= votes.maxHeightPrecommitted /\ h > votes.maxHeightCertified}
    IN  IF covered = {} THEN votes ELSE [votes EXCEPT !.maxHeightCertified = MaxOf(covered)]

\* one processed block: recordBlock, then the watermark advancement
processBlock(store, votes, header, certifiableHeights) ==
    LET inserted == insertBlockBFTInfo(votes, header)
        active == {i \in 1..Len(votes.activeValidatorsVoteInfo) :
                      votes.activeValidatorsVoteInfo[i].address = header.generatorAddress}
        minHeight == IF active = {} THEN header.height + 1
                     ELSE votes.activeValidatorsVoteInfo[CHOOSE i \in active : TRUE].minActiveHeight
        voted == updatePrevotesPrecommits(store, inserted)
        prevoted == updateMaxHeightPrevoted(store, voted)
        precommitted == updateMaxHeightPrecommitted(store, prevoted)
    IN  IF ~parametersCover(store, inserted, minHeight) THEN votes
        ELSE updateMaxHeightCertified(precommitted, certifiableHeights)

\* getBFTHeights returning the precommitted watermark as the certified one
getBFTHeights_PrecommittedAsCertified(votes) ==
    [maxHeightPrevoted |-> votes.maxHeightPrevoted,
     maxHeightPrecommitted |-> votes.maxHeightPrecommitted,
     maxHeightCertified |-> votes.maxHeightPrecommitted]

\* BFTAPI.getBFTHeights
getBFTHeights(votes) ==
    [maxHeightPrevoted |-> votes.maxHeightPrevoted,
     maxHeightPrecommitted |-> votes.maxHeightPrecommitted,
     maxHeightCertified |-> votes.maxHeightCertified]

InitVotes ==
    /\ paramsStore = EmptyStore
    /\ bftVotes = GenesisVotes
    /\ precedingSetCall = NoCall
    /\ DBIdle
    /\ ConnectorIdle
    /\ call = NoCall
    /\ result = None

\* a block of the next height is processed; its header names the generator
\* and the height of the generator's previous block, and aggregate commits
\* may be known for some heights
ProcessBlock ==
    \E generatorAddress \in VoteGenerators, maxHeightGenerated \in 0..MaxVoteBlocks,
       certifiableHeights \in {{}} \cup {{h} : h \in 1..MaxVoteBlocks} :
        /\ call = NoCall
        /\ Len(bftVotes.blockBFTInfos) < MaxVoteBlocks
        /\ maxHeightGenerated < currentHeightOf(bftVotes) + 1
        /\ bftVotes' = processBlock(paramsStore, bftVotes,
                           [height |-> currentHeightOf(bftVotes) + 1,
                            generatorAddress |-> generatorAddress,
                            maxHeightGenerated |-> maxHeightGenerated,
                            maxHeightPrevoted |-> bftVotes.maxHeightPrevoted],
                           certifiableHeights)
        /\ UNCHANGED <<dbVars, paramsStore, precedingSetCall, call, result, connectorVars>>

SetBFTParametersBetweenBlocks ==
    \E c \in VoteParameterCalls :
        /\ call = NoCall
        /\ LET out == setBFTParameters(paramsStore, bftVotes, c.precommitThreshold,
                                       c.certificateThreshold, c.validators)
           IN  /\ paramsStore' = out.paramsStore
               /\ bftVotes' = out.bftVotes
        /\ UNCHANGED <<dbVars, precedingSetCall, call, result, connectorVars>>

GetBFTHeights ==
    /\ call = NoCall
    /\ call' = [op |-> "getBFTHeights"]
    /\ result' = Return(getBFTHeights(bftVotes))
    /\ UNCHANGED <<dbVars, bftVars, connectorVars>>

NextVotes ==
    \/ ProcessBlock
    \/ SetBFTParametersBetweenBlocks
    \/ GetBFTHeights
    \/ ReturnToCaller

SpecVotes == InitVotes /\ [][NextVotes]_vars

MaxLedgerBlocks == 3

\* the generators of the recorded blocks and of the headers asked about
LedgerGenerators == {1, 2}

\* maxHeightPrevoted of the headers
LedgerPrevotedHeights == {0, 1}

\* a recorded block is the next one, or leaves one height out
HeightSteps == {1, 2}

\* the heights of the retained entries go down by one from each to the next
contiguous(infos) == \A i \in 1..(Len(infos) - 1) : infos[i].height = infos[i + 1].height + 1

\* BFTAPI.isHeaderContradictingChain: the loop returns at the first entry of
\* the header's generator
isHeaderContradictingChain(votes, header) ==
    LET sameGenerator == {i \in 1..Len(votes.blockBFTInfos) :
                             votes.blockBFTInfos[i].generatorAddress = header.generatorAddress}
    IN  IF sameGenerator = {} THEN FALSE
        ELSE areDistinctHeadersContradicting(votes.blockBFTInfos[MinOfIndexes(sameGenerator)], header)

\* currentHeaderImpliesMaximalPrevotes comparing the generator of the entry
\* one place too far
currentHeaderImpliesMaximalPrevotes_OffByOne(votes) ==
    IF votes.blockBFTInfos = <<>> THEN Throw("TypeError")
    ELSE LET currentHeader == votes.blockBFTInfos[1]
             previousHeight == currentHeader.maxHeightGenerated
             offset == currentHeader.height - previousHeight
         IN  IF previousHeight >= currentHeader.height THEN Return(FALSE)
             ELSE IF offset + 1 >= Len(votes.blockBFTInfos) THEN Return(TRUE)
             ELSE IF votes.blockBFTInfos[offset + 2].generatorAddress # currentHeader.generatorAddress
             THEN Return(FALSE)
             ELSE Return(TRUE)

\* BFTAPI.currentHeaderImpliesMaximalPrevotes: the header asked about is the
\* newest entry of blockBFTInfos; reading it from an empty list throws
currentHeaderImpliesMaximalPrevotes(votes) ==
    IF votes.blockBFTInfos = <<>> THEN Throw("TypeError")
    ELSE LET currentHeader == votes.blockBFTInfos[1]
             previousHeight == currentHeader.maxHeightGenerated
             offset == currentHeader.height - previousHeight
         IN  IF previousHeight >= currentHeader.height THEN Return(FALSE)
             ELSE IF offset >= Len(votes.blockBFTInfos) THEN Return(TRUE)
             ELSE IF votes.blockBFTInfos[offset + 1].generatorAddress # currentHeader.generatorAddress
             THEN Return(FALSE)
             ELSE Return(TRUE)

InitLedger ==
    /\ BFTIdle
    /\ DBIdle
    /\ ConnectorIdle
    /\ call = NoCall
    /\ result = None

\* the header of the block being executed is recorded; a header may leave a
\* height out only as the newest entry
InsertBlockBFTInfo ==
    /\ call = NoCall
    /\ Len(bftVotes.blockBFTInfos) < MaxLedgerBlocks
    /\ contiguous(bftVotes.blockBFTInfos)
    /\ \E generatorAddress \in LedgerGenerators, step \in HeightSteps,
          maxHeightGenerated \in 0..(MaxLedgerBlocks + 1),
          maxHeightPrevoted \in LedgerPrevotedHeights :
           /\ maxHeightGenerated <= currentHeightOf(bftVotes) + step
           /\ bftVotes' = insertBlockBFTInfo(bftVotes,
                              [height |-> currentHeightOf(bftVotes) + step,
                               generatorAddress |-> generatorAddress,
                               maxHeightGenerated |-> maxHeightGenerated,
                               maxHeightPrevoted |-> maxHeightPrevoted])
    /\ UNCHANGED <<dbVars, paramsStore, precedingSetCall, call, result, connectorVars>>

IsHeaderContradictingChain ==
    /\ call = NoCall
    /\ \E generatorAddress \in LedgerGenerators,
          maxHeightGenerated \in 0..(MaxLedgerBlocks + 1),
          maxHeightPrevoted \in LedgerPrevotedHeights :
           LET header == [height |-> currentHeightOf(bftVotes) + 1,
                          generatorAddress |-> generatorAddress,
                          maxHeightGenerated |-> maxHeightGenerated,
                          maxHeightPrevoted |-> maxHeightPrevoted]
           IN  /\ maxHeightGenerated < header.height
               /\ call' = [op |-> "isHeaderContradictingChain", header |-> header]
               /\ result' = Return(isHeaderContradictingChain(bftVotes, header))
    /\ UNCHANGED <<dbVars, bftVars, connectorVars>>

CurrentHeaderImpliesMaximalPrevotes ==
    /\ call = NoCall
    /\ call' = [op |-> "currentHeaderImpliesMaximalPrevotes"]
    /\ result' = currentHeaderImpliesMaximalPrevotes(bftVotes)
    /\ UNCHANGED <<dbVars, bftVars, connectorVars>>

NextLedger ==
    \/ InsertBlockBFTInfo
    \/ IsHeaderContradictingChain
    \/ CurrentHeaderImpliesMaximalPrevotes

SpecLedger == InitLedger /\ [][NextLedger]_vars

\* the retained entries of a generator that contradict a header
ContradictingEntries(header) ==
    {i \in 1..Len(bftVotes.blockBFTInfos) :
        /\ bftVotes.blockBFTInfos[i].generatorAddress = header.generatorAddress
        /\ areDistinctHeadersContradicting(bftVotes.blockBFTInfos[i], header)}

\* C21: isHeaderContradictingChain(header) is true if and only if a retained
\* entry of the header's generator contradicts the header, also when that
\* entry is not the generator's most recent one.
C21_AnyEntryOfGenerator ==
    call.op = "isHeaderContradictingChain" =>
        result = Return(ContradictingEntries(call.header) # {})

ImpliesCalled == call.op = "currentHeaderImpliesMaximalPrevotes"

\* the header asked about, and the entries retained before it was recorded
TargetHeader == bftVotes.blockBFTInfos[1]
RetainedBefore == Tail(bftVotes.blockBFTInfos)

C23_InvalidHeightThrows ==
    ( /\ ImpliesCalled
      /\ Len(bftVotes.blockBFTInfos) >= 2
      /\ TargetHeader.height # RetainedBefore[1].height
      /\ TargetHeader.height # RetainedBefore[1].height + 1 )
        => result.kind = "throw"

(***************************************************************************)
(* The validatorsHash of the first record of a chain                       *)
(***************************************************************************)
\* lists of the same two keys and weights in another input order and under
\* other addresses, lists that differ in one weight or one key, and lists
\* of validators that have the all-zero BLS key (0)
HashedLists ==
    { <<Validator(1, 11, 2), Validator(2, 12, 1)>>,
      <<Validator(2, 12, 1), Validator(1, 11, 2)>>,
      <<Validator(1, 12, 1), Validator(2, 11, 2)>>,
      <<Validator(1, 11, 1), Validator(2, 12, 1)>>,
      <<Validator(1, 11, 2), Validator(2, 13, 1)>>,
      <<Validator(1, 0, 2), Validator(2, 0, 1)>>,
      <<Validator(1, 0, 1), Validator(2, 0, 2)>>,
      <<Validator(1, 0, 1), Validator(2, 0, 1)>> }

SetBFTParametersHashed ==
    /\ call = NoCall
    /\ \E precommitThreshold \in Thresholds, certificateThreshold \in Thresholds,
          validators \in HashedLists :
        /\ LET out == setBFTParameters(paramsStore, bftVotes, precommitThreshold,
                                       certificateThreshold, validators)
           IN  /\ paramsStore' = out.paramsStore
               /\ bftVotes' = out.bftVotes
               /\ result' = out.result
        /\ call' = [op |-> "setBFTParameters", precommitThreshold |-> precommitThreshold,
                    certificateThreshold |-> certificateThreshold, validators |-> validators]
    /\ UNCHANGED <<dbVars, precedingSetCall, connectorVars>>

NextBFTHashed == SetBFTParametersHashed

SpecBFTHashed == InitBFTGenesis /\ [][NextBFTHashed]_vars

\* the (blsKey, bftWeight) pairs of a list
PairsOf(validators) ==
    [i \in 1..Len(validators) |->
        [blsKey |-> validators[i].blsKey, bftWeight |-> validators[i].bftWeight]]

\* two lists hold the same pairs, each as often as the other
SamePairs(v1, v2) ==
    /\ Len(v1) = Len(v2)
    /\ \A i \in 1..Len(v1) :
           Cardinality({j \in 1..Len(v1) : PairsOf(v1)[j] = PairsOf(v1)[i]})
               = Cardinality({j \in 1..Len(v2) : PairsOf(v2)[j] = PairsOf(v1)[i]})

\* validators of one BLS key have one weight
OneWeightPerKey(validators) ==
    \A i, j \in 1..Len(validators) :
        validators[i].blsKey = validators[j].blsKey =>
            validators[i].bftWeight = validators[j].bftWeight

\* the call has stored a record, under the height after the genesis height
HashStored == SetCalled /\ result.kind = "return" /\ DOMAIN paramsStore # {}
StoredHash == paramsStore[CHOOSE k \in DOMAIN paramsStore : TRUE].validatorsHash

\* the calls that succeed on the stores of a genesis block, and the hash of
\* the record each of them stores
OtherCalls ==
    { c \in [precommitThreshold : Thresholds, certificateThreshold : Thresholds,
             validators : HashedLists] :
        setBFTParameters(EmptyStore, GenesisVotes, c.precommitThreshold,
                         c.certificateThreshold, c.validators).result.kind = "return" }

HashOfCall(c) ==
    LET store == setBFTParameters(EmptyStore, GenesisVotes, c.precommitThreshold,
                                  c.certificateThreshold, c.validators).paramsStore
    IN  store[CHOOSE k \in DOMAIN store : TRUE].validatorsHash

\* C31 (as stated): the stored validatorsHash is the same for every call
\* whose list holds the same (blsKey, bftWeight) pairs with the same
\* certificateThreshold, whatever the order, the addresses and the
\* precommitThreshold, and differs when a pair or the certificateThreshold
\* differs.
C31_HashOfPairsAndThreshold ==
    HashStored =>
        \A c \in OtherCalls :
            (SamePairs(c.validators, call.validators)
                 /\ c.certificateThreshold = call.certificateThreshold)
            <=> HashOfCall(c) = StoredHash

\* C31 (amended): the same, for lists in which validators of one BLS key
\* have one weight.
C31_HashOfPairsOneWeightPerKey ==
    (HashStored /\ OneWeightPerKey(call.validators)) =>
        \A c \in OtherCalls :
            (SamePairs(c.validators, call.validators)
                 /\ c.certificateThreshold = call.certificateThreshold)
            <=> HashOfCall(c) = StoredHash

\* the stored record is that of keys 11 and 12 given under the other
\* addresses, with a precommitThreshold below the certificateThreshold
C31_Witness ==
    /\ HashStored
    /\ call.validators = <<Validator(1, 12, 1), Validator(2, 11, 2)>>
    /\ call.precommitThreshold = 2
    /\ call.certificateThreshold = 3
    /\ StoredHash = HashOfCall([precommitThreshold |-> 3, certificateThreshold |-> 3,
                                validators |-> <<Validator(1, 11, 2), Validator(2, 12, 1)>>])

(***************************************************************************)
(* getCertificateFromAggregateCommitByBlockHeader called on its own        *)
(***************************************************************************)
InitCertificate ==
    /\ DBIdle
    /\ BFTIdle
    /\ ConnectorIdle
    /\ call = NoCall
    /\ result = None

GetCertificateFromAggregateCommitByBlockHeader ==
    /\ call = NoCall
    /\ \E commitHeight \in Heights, bits \in Bitmaps, headerHeight \in Heights, vh \in Hashes :
           LET aggregateCommit == AggregateCommit(commitHeight, bits)
               blockHeader == BlockHeader(headerHeight, vh)
           IN  /\ call' = [op |-> "getCertificateFromAggregateCommitByBlockHeader",
                           aggregateCommit |-> aggregateCommit, blockHeader |-> blockHeader]
               /\ result' = Return(getCertificateFromAggregateCommitByBlockHeader(
                                       aggregateCommit, blockHeader))
    /\ UNCHANGED <<dbVars, bftVars, connectorVars>>

NextCertificate == GetCertificateFromAggregateCommitByBlockHeader

SpecCertificate == InitCertificate /\ [][NextCertificate]_vars

CertificateCalled == call.op = "getCertificateFromAggregateCommitByBlockHeader"

\* C25: a call with blockHeader.height different from aggregateCommit.height
\* fails with HeaderMismatch and produces no certificate.
C25_HeaderMismatch ==
    (CertificateCalled /\ call.blockHeader.height # call.aggregateCommit.height) =>
        result = Throw("HeaderMismatch")

\* the record left when aggregationBits and signature are removed
WithoutSignature(certificate) ==
    [f \in (DOMAIN certificate) \ {"aggregationBits", "signature"} |-> certificate[f]]

\* C26: for an aggregate commit and a header of the same height the
\* certificate carries the aggregationBits and the certificateSignature of
\* the commit, and without these two fields it is the unsigned certificate
\* of the header: its id as blockID, height, stateRoot, validatorsHash and
\* timestamp.
C26_RoundTrip ==
    (CertificateCalled /\ call.blockHeader.height = call.aggregateCommit.height) =>
        /\ result.kind = "return"
        /\ result.value.aggregationBits = call.aggregateCommit.aggregationBits
        /\ result.value.signature = call.aggregateCommit.certificateSignature
        /\ WithoutSignature(result.value) =
               [blockID |-> call.blockHeader.id,
                height |-> call.blockHeader.height,
                stateRoot |-> call.blockHeader.stateRoot,
                validatorsHash |-> call.blockHeader.validatorsHash,
                timestamp |-> call.blockHeader.timestamp]

C26_Witness ==
    /\ CertificateCalled
    /\ call.blockHeader.height = call.aggregateCommit.height
    /\ call.blockHeader.height > 0
    /\ result.kind = "return"
    /\ result.value.aggregationBits = <<17>>

(***************************************************************************)
(* getGeneratorAtTimestamp and getSlotNumber over stored parameters        *)
(***************************************************************************)
\* seconds per block slot, the second argument of init
blockTime == 7

MaxTimestamp == 48

\* the validators of the parameter records the lookups run on: all of
\* positive weight, and with a validator of weight 0 among them
GeneratorLists ==
    { <<Validator(1, 11, 1), Validator(2, 12, 1), Validator(3, 13, 1)>>,
      <<Validator(1, 11, 2), Validator(2, 12, 0), Validator(3, 13, 1)>>,
      <<Validator(2, 12, 1), Validator(3, 13, 1)>> }

\* a parameter record with the validators of a list
ParametersOf(validators) ==
    [prevoteThreshold |-> (2 * sumBFTWeight(validators)) \div 3 + 1,
     precommitThreshold |-> sumBFTWeight(validators),
     certificateThreshold |-> sumBFTWeight(validators),
     validators |-> validators,
     validatorsHash |-> computeValidatorsHash(validators, sumBFTWeight(validators))]

\* the entries of a list that satisfy a test, in the order of the list
RECURSIVE SelectWeighted(_)
SelectWeighted(validators) ==
    IF validators = <<>> THEN <<>>
    ELSE IF Head(validators).bftWeight > 0
    THEN <<Head(validators)>> \o SelectWeighted(Tail(validators))
    ELSE SelectWeighted(Tail(validators))

\* getSlotNumber(timestamp)
getSlotNumber(timestamp) == timestamp \div blockTime

\* getGeneratorAtTimestamp taking the slot among all validators of the record
getGeneratorAtTimestamp_AllValidators(store, height, timestamp) ==
    LET bftParams == getBFTParameters(store, height) IN
    IF bftParams.kind # "return" THEN bftParams
    ELSE Return(bftParams.value.validators[
                    (getSlotNumber(timestamp) % Len(bftParams.value.validators)) + 1])

\* getGeneratorAtTimestamp(height, timestamp)
getGeneratorAtTimestamp(store, height, timestamp) ==
    LET bftParams == getBFTParameters(store, height) IN
    IF bftParams.kind # "return" THEN bftParams
    ELSE LET active == SelectWeighted(bftParams.value.validators)
         IN  Return(active[(getSlotNumber(timestamp) % Len(active)) + 1])

\* parameters are stored for heights 255 and 256, the second record with any
\* of the lists
InitGenerator ==
    /\ \E first \in GeneratorLists, second \in GeneratorLists :
           paramsStore = [k \in {intToBuffer(255), intToBuffer(256)} |->
                             IF k = intToBuffer(255) THEN ParametersOf(first) ELSE ParametersOf(second)]
    /\ bftVotes = GenesisVotesAt(254)
    /\ precedingSetCall = NoCall
    /\ DBIdle
    /\ ConnectorIdle
    /\ call = NoCall
    /\ result = None

GetGeneratorAtTimestamp ==
    /\ call = NoCall
    /\ \E height \in {254, 255, 256, 257}, timestamp \in 0..MaxTimestamp :
           /\ call' = [op |-> "getGeneratorAtTimestamp", height |-> height, timestamp |-> timestamp]
           /\ result' = getGeneratorAtTimestamp(paramsStore, height, timestamp)
    /\ UNCHANGED <<dbVars, bftVars, connectorVars>>

NextGenerator == GetGeneratorAtTimestamp

SpecGenerator == InitGenerator /\ [][NextGenerator]_vars

\* the validators of positive weight of the record in force at a height
WeightedValidatorsAt(h) ==
    LET validators == RecordInForce(paramsStore, h).validators
        weighted == {i \in 1..Len(validators) : validators[i].bftWeight > 0}
    IN  [n \in 1..Cardinality(weighted) |->
            validators[CHOOSE i \in weighted : Cardinality({j \in weighted : j < i}) = n - 1]]

\* C24: getGeneratorAtTimestamp(height, timestamp) returns the validator at
\* index floor(timestamp / blockTime) mod N of the N validators of positive
\* weight in force at the height; over N consecutive slots each of them is
\* returned exactly once.
C24_RoundRobin ==
    (call.op = "getGeneratorAtTimestamp" /\ RecordInForce(paramsStore, call.height) # None) =>
        LET weighted == WeightedValidatorsAt(call.height)
            N == Len(weighted)
            slot == call.timestamp \div blockTime
        IN  /\ result = Return(weighted[(slot % N) + 1])
            /\ \A n \in 1..N :
                   Cardinality({i \in 0..(N - 1) :
                       getGeneratorAtTimestamp(paramsStore, call.height, (slot + i) * blockTime)
                           = Return(weighted[n])}) = 1

\* a lookup in the second round of a record that holds a validator of
\* weight 0, at a slot whose validator differs with and without it
C24_Witness ==
    /\ call.op = "getGeneratorAtTimestamp"
    /\ call.height = 257
    /\ call.timestamp \div blockTime = 3
    /\ call.timestamp % blockTime # 0
    /\ \E i \in 1..Len(paramsStore[intToBuffer(256)].validators) :
           paramsStore[intToBuffer(256)].validators[i].bftWeight = 0
    /\ result = Return(Validator(3, 13, 1))

(***************************************************************************)
(* BlockEventHandler (chain connector plugin): CCU submission              *)
(*                                                                         *)
(* Every chain_newBlock event of the sending chain starts an invocation of *)
(* _handleNewBlock; the callbacks are async and nothing awaits them, so an *)
(* invocation runs up to its next await and later invocations, the         *)
(* receiving chain's handler and the timeout callback run in between.      *)
(***************************************************************************)
\* number of chain_newBlock events of the sending chain
MaxNewBlocks == 2

NewBlockHeights == 1..MaxNewBlocks

\* ids of the CCU transactions submitCCU can build
TxIDs == {"tx1", "tx2"}

\* heights of the last certificate in the receiving chain's chain account
LastCertificateHeights == {0, 1}

\* the _ccuFrequency field: declared, and assigned nowhere in the class
ccuFrequency == [kind |-> "undefined"]

\* this._ccuFrequency > numOfBlocksSinceLastCertificate (undefined > n is false)
ccuFrequencyExceeds(n) == IF ccuFrequency = None THEN FALSE ELSE ccuFrequency > n

\* the validators getBFTParametersAtHeight reports for a validatorsHash
ValidatorsOfHash(vh) ==
    IF vh = "vhA" THEN <<V(11, 2), V(12, 1)>>
    ELSE IF vh = "vhB" THEN <<V(13, 1), V(11, 2)>>
    ELSE <<V(12, 1), V(13, 2)>>

\* ChainConnectorDB.saveToDBOnNewBlock: the header is kept under its height
saveToDBOnNewBlock(headers, header) ==
    [k \in DOMAIN headers \cup {header.height} |->
        IF k = header.height THEN header ELSE headers[k]]

\* ChainConnectorDB.setValidatorsDataByHash
setValidatorsDataByHash(vdata, vh, data) ==
    [k \in DOMAIN vdata \cup {vh} |-> IF k = vh THEN data ELSE vdata[k]]

\* { ...validatorsData, height }: the validators data with the height of the
\* block they were asked for
AtHeight(data, height) ==
    [validators |-> data.validators, certificateThreshold |-> data.certificateThreshold,
     validatorsHash |-> data.validatorsHash, height |-> height]

\* an invocation of _handleNewBlock: where it is, and what it holds
Frame(pc, txID, ccm) == [pc |-> pc, lastSentCCUTxID |-> txID, lastCCMToBeSent |-> ccm]

\* clearTimeout(handle): the callback of that handle will not run
clearTimeout(pending, handle) == pending \ {handle}

InitConnector ==
    /\ DBIdle
    /\ BFTIdle
    /\ call = NoCall
    /\ result = None
    /\ FieldsInit
    /\ newBlockHandlers = [h \in NewBlockHeights |-> Frame("waiting", "", None)]
    /\ receivingChainHandler = [pc |-> "idle"]
    /\ timers = {}
    /\ postedCCUs = {}
    /\ includedCCUs = {}
    /\ timedOutCCUs = {}
    /\ carriedCCMs = EmptyStore
    /\ CleanupFieldsInit
    /\ ClientsIdle

\* ChainConnectorDB.setCCMsByHeight
setCCMsByHeight(ccms, list, height) ==
    [k \in DOMAIN ccms \cup {height} |-> IF k = height THEN list ELSE ccms[k]]

\* the CCMs of the ccmSendSuccess and forwarded ccmProcessed events of a
\* block, each with the height of the block
CCMsFromEvents(h) == {<<>>, <<[nonce |-> h, height |-> h]>>}

\* the validatorsHash of the sending chain's block of height h: the
\* validators change with every block
NewBlockValidatorsHash(h) ==
    IF h % 3 = 1 THEN "vhA" ELSE IF h % 3 = 2 THEN "vhB" ELSE "vhC"

\* chain_newBlock for the block of height h: the callback calls
\* _handleNewBlock; _saveOnNewBlock saves the header and asks the sending
\* chain for the events of the block
HandleNewBlock(h) ==
    /\ newBlockHandlers[h].pc = "waiting"
    /\ \A g \in NewBlockHeights : g < h => newBlockHandlers[g].pc # "waiting"
    /\ blockHeaders' = saveToDBOnNewBlock(blockHeaders, BlockHeader(h, NewBlockValidatorsHash(h)))
    /\ newBlockHandlers' = [newBlockHandlers EXCEPT ![h].pc = "getEvents"]
    /\ UNCHANGED <<aggregateCommits, validatorsData, crossChainMessages, bftVars, call, result,
                   receivingChainHandler, fieldVars, timers, postedCCUs, includedCCUs, timedOutCCUs, carriedCCMs, receivingVars>>

\* getEvents has answered: an error of the sending chain ends the handler
\* (the subscription callback logs it); otherwise the CCMs of the events are
\* saved under the height and the BFT parameters of the height are asked for
GetEventsReturns(h) ==
    /\ newBlockHandlers[h].pc = "getEvents"
    /\ \E events \in {Throw("rpc")} \cup {Return(list) : list \in CCMsFromEvents(h)} :
        IF events.kind = "throw"
        THEN /\ newBlockHandlers' = [newBlockHandlers EXCEPT ![h].pc = "returned"]
             /\ UNCHANGED crossChainMessages
        ELSE /\ crossChainMessages' = setCCMsByHeight(crossChainMessages, events.value, h)
             /\ newBlockHandlers' = [newBlockHandlers EXCEPT ![h].pc = "getBFTParametersAtHeight"]
    /\ UNCHANGED <<blockHeaders, aggregateCommits, validatorsData, bftVars, call, result,
                   receivingChainHandler, fieldVars, timers, postedCCUs, includedCCUs, timedOutCCUs, carriedCCMs, receivingVars>>

\* GetBFTParametersAtHeightReturns going on without saving the validators data
GetBFTParametersAtHeightReturns_NotSaved(h) ==
    /\ newBlockHandlers[h].pc = "getBFTParametersAtHeight"
    /\ \E answer \in {Throw("rpc"), Return(blockHeaders[h].validatorsHash)} :
        newBlockHandlers' = [newBlockHandlers EXCEPT ![h].pc =
                                IF answer.kind = "throw" THEN "returned" ELSE "getNodeInfo"]
    /\ UNCHANGED <<dbVars, bftVars, call, result,
                   receivingChainHandler, fieldVars, timers, postedCCUs, includedCCUs, timedOutCCUs, carriedCCMs, receivingVars>>

\* getBFTParametersAtHeight has answered: an error ends the handler;
\* otherwise the validators data are saved under their hash, _saveOnNewBlock
\* returns and _handleNewBlock awaits getNodeInfo
GetBFTParametersAtHeightReturns(h) ==
    /\ newBlockHandlers[h].pc = "getBFTParametersAtHeight"
    /\ \E answer \in {Throw("rpc"), Return(blockHeaders[h].validatorsHash)} :
        IF answer.kind = "throw"
        THEN /\ newBlockHandlers' = [newBlockHandlers EXCEPT ![h].pc = "returned"]
             /\ UNCHANGED validatorsData
        ELSE /\ validatorsData' = setValidatorsDataByHash(validatorsData, answer.value,
                                      AtHeight(ValidatorsData(answer.value, ValidatorsOfHash(answer.value), 2), h))
             /\ newBlockHandlers' = [newBlockHandlers EXCEPT ![h].pc = "getNodeInfo"]
    /\ UNCHANGED <<blockHeaders, aggregateCommits, crossChainMessages, bftVars, call, result,
                   receivingChainHandler, fieldVars, timers, postedCCUs, includedCCUs, timedOutCCUs, carriedCCMs, receivingVars>>

\* from the answer of getNodeInfo to the test of the pending CCU: the
\* handler returns when the node is syncing or the receiving chain has no
\* certificate of this chain, calls _initializeReceivingChainClient when the
\* receiving chain cannot be asked, returns when the receiving chain is
\* not registered, or when a CCU is pending; otherwise it calls computeCCU
CheckPendingCCU(h) ==
    /\ newBlockHandlers[h].pc = "getNodeInfo"
    /\ \E syncing \in BOOLEAN, receivingChainAccount \in BOOLEAN,
          chainAccount \in {Throw("rpc"), None} \cup {Return([height |-> c]) : c \in LastCertificateHeights} :
        LET registered == chainAccount.kind = "return"
            frequent == registered /\ ~ccuFrequencyExceeds(h - chainAccount.value.height)
            proceeds == ~syncing /\ frequent /\ (_isReceivingChainRegistered \/ receivingChainAccount)
        IN  /\ _lastCertificate' = IF ~syncing /\ registered THEN chainAccount.value
                                   ELSE _lastCertificate
            /\ _isReceivingChainRegistered' = (_isReceivingChainRegistered \/ proceeds)
            /\ newBlockHandlers' = [newBlockHandlers EXCEPT ![h].pc =
                                       IF proceeds /\ _lastSentCCUTxID = "" THEN "computeCCU"
                                       ELSE IF ~syncing /\ chainAccount.kind = "throw" THEN "connect"
                                       ELSE "returned"]
    /\ UNCHANGED <<dbVars, bftVars, call, result, receivingChainHandler, _lastSentCCUTxID,
                   _sentCCUTxTimeout, _lastSentCCM, _lastIncludedCCMOnReceivingChain,
                   timers, postedCCUs, includedCCUs, timedOutCCUs, carriedCCMs, receivingVars>>

\* _initializeReceivingChainClient has answered, connected or not (it
\* handles its own errors; what it does to the clients is
\* InitializeReceivingChainClient): the handler logs the error of
\* getChainAccount and returns
InitializeReceivingChainClientReturns(h) ==
    /\ newBlockHandlers[h].pc = "connect"
    /\ newBlockHandlers' = [newBlockHandlers EXCEPT ![h].pc = "returned"]
    /\ UNCHANGED <<dbVars, bftVars, call, result, receivingChainHandler, fieldVars,
                   timers, postedCCUs, includedCCUs, timedOutCCUs, carriedCCMs, receivingVars>>

\* computeCCU has answered: without CCU params the handler returns, with
\* them it calls submitCCU(ccuParams, this._lastSentCCUTxID)
ComputeCCUReturns(h) ==
    /\ newBlockHandlers[h].pc = "computeCCU"
    /\ \E computedCCUParams \in {None} \cup {Return([lastCCMToBeSent |-> m]) : m \in {None, [nonce |-> h]}} :
        newBlockHandlers' = [newBlockHandlers EXCEPT ![h] =
            IF computedCCUParams = None
            THEN Frame("returned", "", None)
            ELSE Frame("submitCCU", _lastSentCCUTxID, computedCCUParams.value.lastCCMToBeSent)]
    /\ UNCHANGED <<dbVars, bftVars, call, result, receivingChainHandler, fieldVars,
                   timers, postedCCUs, includedCCUs, timedOutCCUs, carriedCCMs, receivingVars>>

\* CCUHandler.submitCCU(ccuParams, lastSentCCUTxID) for a transaction of id
\* txID: undefined when txID is lastSentCCUTxID, an error when the receiving
\* chain was already sent txID, and otherwise txID, after posting it
submitCCU(txID, lastSentCCUTxID, posted) ==
    IF txID = lastSentCCUTxID THEN None
    ELSE IF txID \in posted THEN Throw("duplicate transaction")
    ELSE Return(txID)

\* the CCU transaction txID is sent with ccm as the last of its CCMs
\* (undefined when the CCU carries no CCM)
carry(carried, txID, ccm) ==
    [k \in DOMAIN carried \cup {txID} |-> IF k = txID THEN ccm ELSE carried[k]]

\* submitCCU has answered: on a transaction id the handler records it in
\* _lastSentCCUTxID, starts the timeout and keeps the last CCM that was sent
SubmitCCUReturns(h) ==
    /\ newBlockHandlers[h].pc = "submitCCU"
    /\ \E txID \in TxIDs :
        LET ccuSubmitResult == submitCCU(txID, newBlockHandlers[h].lastSentCCUTxID, postedCCUs)
            sent == ccuSubmitResult.kind = "return"
            lastCCMToBeSent == newBlockHandlers[h].lastCCMToBeSent
        IN  /\ postedCCUs' = IF sent THEN postedCCUs \cup {txID} ELSE postedCCUs
            /\ _lastSentCCUTxID' = IF sent THEN txID ELSE _lastSentCCUTxID
            /\ _sentCCUTxTimeout' = IF sent THEN txID ELSE _sentCCUTxTimeout
            /\ timers' = IF sent THEN timers \cup {txID} ELSE timers
            /\ _lastSentCCM' = IF sent /\ lastCCMToBeSent # None THEN lastCCMToBeSent
                               ELSE _lastSentCCM
            /\ carriedCCMs' = IF sent THEN carry(carriedCCMs, txID, lastCCMToBeSent)
                              ELSE carriedCCMs
    /\ newBlockHandlers' = [newBlockHandlers EXCEPT ![h] = Frame("returned", "", None)]
    /\ UNCHANGED <<dbVars, bftVars, call, result, receivingChainHandler,
                   _lastIncludedCCMOnReceivingChain, _isReceivingChainRegistered,
                   _lastCertificate, includedCCUs, timedOutCCUs, receivingVars>>

\* SentCCUTimeout leaving the transaction id in place
SentCCUTimeout_KeepsMarker(txID) ==
    /\ txID \in timers
    /\ timers' = clearTimeout(timers \ {txID}, _sentCCUTxTimeout)
    /\ timedOutCCUs' = timedOutCCUs \cup {txID}
    /\ UNCHANGED <<dbVars, bftVars, call, result, newBlockHandlers, receivingChainHandler,
                   fieldVars, postedCCUs, includedCCUs, carriedCCMs, receivingVars>>

\* SentCCUTimeout forgetting the last sent CCM with the transaction id
SentCCUTimeout_ForgetsLastSentCCM(txID) ==
    /\ txID \in timers
    /\ _lastSentCCUTxID' = ""
    /\ _lastSentCCM' = None
    /\ timers' = clearTimeout(timers \ {txID}, _sentCCUTxTimeout)
    /\ timedOutCCUs' = timedOutCCUs \cup {txID}
    /\ UNCHANGED <<dbVars, bftVars, call, result, newBlockHandlers, receivingChainHandler,
                   _sentCCUTxTimeout, _lastIncludedCCMOnReceivingChain,
                   _isReceivingChainRegistered, _lastCertificate, postedCCUs, includedCCUs, carriedCCMs, receivingVars>>

\* the callback given to setTimeout for the submission of txID runs
SentCCUTimeout(txID) ==
    /\ txID \in timers
    /\ _lastSentCCUTxID' = ""
    /\ timers' = clearTimeout(timers \ {txID}, _sentCCUTxTimeout)
    /\ timedOutCCUs' = timedOutCCUs \cup {txID}
    /\ UNCHANGED <<dbVars, bftVars, call, result, newBlockHandlers, receivingChainHandler,
                   _sentCCUTxTimeout, _lastSentCCM, _lastIncludedCCMOnReceivingChain,
                   _isReceivingChainRegistered, _lastCertificate, postedCCUs, includedCCUs, carriedCCMs, receivingVars>>

\* the receiving chain puts a transaction it was sent into a block
IncludeCCU(txID) ==
    /\ txID \in postedCCUs \ includedCCUs
    /\ includedCCUs' = includedCCUs \cup {txID}
    /\ UNCHANGED <<dbVars, bftVars, call, result, newBlockHandlers, receivingChainHandler,
                   fieldVars, timers, postedCCUs, timedOutCCUs, carriedCCMs, receivingVars>>

\* chain_newBlock of the receiving chain while a CCU is pending: the handler
\* asks the receiving chain for the transaction of _lastSentCCUTxID.  (What
\* the handler notes for the deletion of old records, and the deletion
\* itself, are left to NewBlockReceivingChainCleanup.)
NewBlockReceivingChainHandler ==
    /\ receivingChainHandler.pc = "idle"
    /\ _lastSentCCUTxID # ""
    /\ receivingChainHandler' = [pc |-> "getTransactionByID", id |-> _lastSentCCUTxID]
    /\ UNCHANGED <<dbVars, bftVars, call, result, newBlockHandlers, fieldVars,
                   timers, postedCCUs, includedCCUs, timedOutCCUs, carriedCCMs, receivingVars>>

\* getTransactionByID has answered: when the transaction is in a block the
\* pending CCU is reset, its timeout cleared and the last sent CCM becomes
\* the last included one; when it is not, the handler gives up
GetTransactionByIDReturns ==
    /\ receivingChainHandler.pc = "getTransactionByID"
    /\ receivingChainHandler' = [pc |-> "idle"]
    /\ IF receivingChainHandler.id \in includedCCUs
       THEN /\ _lastSentCCUTxID' = ""
            /\ timers' = clearTimeout(timers, _sentCCUTxTimeout)
            /\ _lastIncludedCCMOnReceivingChain' =
                   IF _lastSentCCM # None THEN _lastSentCCM
                   ELSE _lastIncludedCCMOnReceivingChain
       ELSE UNCHANGED <<_lastSentCCUTxID, timers, _lastIncludedCCMOnReceivingChain>>
    /\ UNCHANGED <<dbVars, bftVars, call, result, newBlockHandlers, _sentCCUTxTimeout,
                   _lastSentCCM, _isReceivingChainRegistered, _lastCertificate,
                   postedCCUs, includedCCUs, timedOutCCUs, carriedCCMs, receivingVars>>

NextConnector ==
    \/ \E h \in NewBlockHeights : HandleNewBlock(h)
    \/ \E h \in NewBlockHeights : GetEventsReturns(h)
    \/ \E h \in NewBlockHeights : GetBFTParametersAtHeightReturns(h)
    \/ \E h \in NewBlockHeights : InitializeReceivingChainClientReturns(h)
    \/ \E h \in NewBlockHeights : CheckPendingCCU(h)
    \/ \E h \in NewBlockHeights : ComputeCCUReturns(h)
    \/ \E h \in NewBlockHeights : SubmitCCUReturns(h)
    \/ \E txID \in TxIDs : SentCCUTimeout(txID)
    \/ \E txID \in TxIDs : IncludeCCU(txID)
    \/ NewBlockReceivingChainHandler
    \/ GetTransactionByIDReturns

SpecConnector == InitConnector /\ [][NextConnector]_vars

(***************************************************************************)
(* Claims on the submission of CCUs                                        *)
(***************************************************************************)
\* the submissions that were sent and have neither timed out nor been
\* included in a block of the receiving chain
OutstandingCCUs == postedCCUs \ (includedCCUs \cup timedOutCCUs)

\* C7: submitCCU is never invoked while the id of an earlier submission is
\* recorded in _lastSentCCUTxID (it has neither timed out nor been confirmed),
\* and at most one submission is outstanding at any time.
C7_SingleOutstandingSubmission ==
    /\ \A h \in NewBlockHeights :
           newBlockHandlers[h].pc = "submitCCU" => newBlockHandlers[h].lastSentCCUTxID = ""
    /\ Cardinality(OutstandingCCUs) <= 1

\* C28: when the timeout of a submission fires, _lastSentCCUTxID becomes
\* empty and nothing else of the handler's data changes: the last
\* certificate, the last sent and the last included CCM, and the stored
\* block headers, aggregate commits, validators data and CCMs stay as they are.
C28_TimeoutClearsMarkerOnly ==
    [][timedOutCCUs' # timedOutCCUs =>
         /\ _lastSentCCUTxID' = ""
         /\ UNCHANGED <<_lastCertificate, _lastSentCCM, _lastIncludedCCMOnReceivingChain,
                        _isReceivingChainRegistered, dbVars>>]_vars

\* the timeout of a submission has fired while a CCM it sent is recorded and
\* data of two blocks are stored
C28_Witness ==
    /\ timedOutCCUs # {}
    /\ _lastSentCCUTxID = ""
    /\ _lastSentCCM # None
    /\ _lastCertificate # None
    /\ DOMAIN blockHeaders = NewBlockHeights
    /\ \E h \in DOMAIN crossChainMessages : crossChainMessages[h] # <<>>

\* the header, the CCMs and the validators data of the block of height h are
\* in the connector's db
SavedOnNewBlock(h) ==
    /\ h \in DOMAIN blockHeaders
    /\ blockHeaders[h].height = h
    /\ h \in DOMAIN crossChainMessages
    /\ blockHeaders[h].validatorsHash \in DOMAIN validatorsData

\* C29: the handler of a new block asks the receiving chain only after the
\* header, the CCMs and the validators data of the block are saved; when
\* the receiving chain cannot be asked nothing that is saved changes, the
\* handler tries to connect again and then returns, leaving the data saved.
\* This holds for the handler of every block, so a later block tries again.
C29_SavedBeforeReceivingChain ==
    [][\A h \in NewBlockHeights :
         /\ (newBlockHandlers[h].pc = "getNodeInfo" /\ newBlockHandlers'[h].pc # "getNodeInfo")
                => SavedOnNewBlock(h)
         /\ (newBlockHandlers[h].pc = "getNodeInfo" /\ newBlockHandlers'[h].pc = "connect")
                => UNCHANGED <<dbVars, fieldVars>>
         /\ (newBlockHandlers[h].pc = "connect" /\ newBlockHandlers'[h].pc # "connect")
                => /\ newBlockHandlers'[h].pc = "returned"
                   /\ UNCHANGED <<dbVars, fieldVars>>
                   /\ SavedOnNewBlock(h)']_vars

\* the receiving chain could not be asked for the first block, whose handler
\* has returned, and cannot be asked for the second: its handler tries to
\* connect, with the data of both blocks saved
C29_Witness ==
    /\ newBlockHandlers[1].pc = "returned"
    /\ newBlockHandlers[2].pc = "connect"
    /\ _lastCertificate = None
    /\ SavedOnNewBlock(1)
    /\ SavedOnNewBlock(2)
    /\ crossChainMessages[2] # <<>>

(***************************************************************************)
(* The certification functions called, and called again, on a stored db    *)
(***************************************************************************)
\* the validators data of every hash, or of one hash only
StoredSnapshots ==
    { [vh \in S |-> ValidatorsData(vh, ValidatorsOfHash(vh), 2)] : S \in {Hashes, {"vhB"}} }

InitCertification ==
    /\ blockHeaders \in
         {[h \in DOMAIN f |-> BlockHeader(h, f[h])] :
            f \in PartialFunctions(Heights, Hashes)}
    /\ aggregateCommits \in
         {[h \in S |-> AggregateCommit(h, <<16>>)] : S \in SUBSET (1..MaxHeight)}
    /\ validatorsData \in StoredSnapshots
    /\ crossChainMessages = EmptyStore
    /\ BFTIdle
    /\ ConnectorIdle
    /\ call = NoCall
    /\ result = None

\* the call that was made is made again, with the same arguments
RepeatCall ==
    /\ call # NoCall
    /\ call' = call
    /\ result' = IF call.op = "checkChainOfTrust"
                 THEN checkChainOfTrust(call.lastValidatorsHash, call.blsKeyToBFTWeight,
                                        call.lastCertificateThreshold, call.aggregateCommit,
                                        blockHeaders, validatorsData)
                 ELSE getNextCertificateFromAggregateCommits(
                          blockHeaders, aggregateCommits, validatorsData,
                          call.bftHeights, call.lastCertificate)
    /\ UNCHANGED <<dbVars, bftVars, connectorVars>>

NextCertification ==
    \/ CallCheckChainOfTrust
    \/ CallGetNextCertificate
    \/ RepeatCall

SpecCertification == InitCertification /\ [][NextCertification]_vars

SpecConnectorFair ==
    SpecConnector /\ WF_vars(\E txID \in TxIDs : SentCCUTimeout(txID))

\* C34: a transaction id recorded in _lastSentCCUTxID does not stay there
\* for ever: the marker is cleared again, by the inclusion of the
\* transaction or by a timeout.
C34_MarkerEventuallyCleared ==
    (_lastSentCCUTxID # "") ~> (_lastSentCCUTxID = "")

\* the first submission has timed out without being included, and after it
\* the handler of a later block has computed and submitted another CCU
C34_Witness ==
    /\ timedOutCCUs = {"tx1"}
    /\ includedCCUs = {}
    /\ postedCCUs = {"tx1", "tx2"}
    /\ _lastSentCCUTxID = "tx2"
    /\ "tx2" \in timers

\* C35: _lastIncludedCCMOnReceivingChain is only ever set to the last CCM
\* carried by the CCU whose transaction the receiving chain's handler has
\* found included; the CCM of a submission that timed out without being
\* included is never recorded, also when a later CCU without CCM is found.
C35_OnlyIncludedCCMRecorded ==
    [][_lastIncludedCCMOnReceivingChain' # _lastIncludedCCMOnReceivingChain =>
          /\ receivingChainHandler.pc = "getTransactionByID"
          /\ receivingChainHandler.id \in includedCCUs
          /\ _lastIncludedCCMOnReceivingChain' = carriedCCMs[receivingChainHandler.id]]_vars

\* the ccuFrequency of the plugin's configuration: the number of blocks
\* after which a CCU should be created
configuredCCUFrequency == 2

\* C39: no CCU is computed or submitted for a new block whose height is
\* fewer than the configured ccuFrequency blocks above the height of the last
\* certificate on the receiving chain (and none while the sending node is
\* syncing): a handler that goes on to computeCCU has found
\* newBlock.height - lastCertificate.height >= ccuFrequency.
C39_NoCCUBelowFrequency ==
    [][\A h \in NewBlockHeights :
          (newBlockHandlers[h].pc = "getNodeInfo" /\ newBlockHandlers'[h].pc = "computeCCU") =>
              h - _lastCertificate'.height >= configuredCCUFrequency]_vars

(***************************************************************************)
(* BlockEventHandler: deletion of old records                              *)
(*                                                                         *)
(* The db holds what the handler of the sending chain's blocks has saved   *)
(* for the heights 1..MaxStoredHeight, and the aggregate commits of those  *)
(* heights.  The receiving chain grows block by block; a block can include *)
(* a CCU, which raises the height of its last certificate of this chain,   *)
(* and its finalized height lags behind its newest block.                  *)
(***************************************************************************)
\* the newest height the sending chain's handler has saved
MaxStoredHeight == 3

SavedHeights == 1..MaxStoredHeight

\* number of blocks of the receiving chain
MaxReceivingBlocks == 2

\* the height of this chain's last certificate in the receiving chain's
\* state after its block k (nothing is certified at its block 0)
LastCertificateHeightAt(chain, k) ==
    IF k = 0 THEN 0 ELSE chain.lastCertificateHeights[k]

\* the receiving chain's newest block
ReceivingHeight == Len(receivingChain.lastCertificateHeights)

\* the height of the newest block saved with the validators hash vh
SnapshotHeight(vh) ==
    CHOOSE h \in SavedHeights :
        /\ NewBlockValidatorsHash(h) = vh
        /\ \A g \in SavedHeights : NewBlockValidatorsHash(g) = vh => g <= h

\* an API client made by apiClient.createIPCClient / createWSClient
Client(open, subscribed) == [open |-> open, subscribed |-> subscribed]

\* the clients whose connection is open and which were subscribed to
\* chain_newBlock
Subscriptions(clients) ==
    {i \in DOMAIN clients : clients[i].open /\ clients[i].subscribed}

\* after load: the client made by its connect(), and the one made and
\* subscribed by _initializeReceivingChainClient
LoadedClients == <<Client(TRUE, FALSE), Client(TRUE, TRUE)>>

InitCleanup ==
    /\ BFTIdle
    /\ call = NoCall
    /\ result = None
    /\ blockHeaders = [h \in SavedHeights |-> BlockHeader(h, NewBlockValidatorsHash(h))]
    /\ aggregateCommits = [h \in SavedHeights |-> AggregateCommit(h, <<16>>)]
    /\ crossChainMessages = [h \in SavedHeights |-> <<[nonce |-> h, height |-> h]>>]
    /\ validatorsData =
           [vh \in {NewBlockValidatorsHash(h) : h \in SavedHeights} |->
               AtHeight(ValidatorsData(vh, ValidatorsOfHash(vh), 2), SnapshotHeight(vh))]
    /\ _lastSentCCUTxID = ""
    /\ _sentCCUTxTimeout = "undefined"
    /\ _lastSentCCM = None
    /\ _lastIncludedCCMOnReceivingChain = None
    /\ _isReceivingChainRegistered = FALSE
    /\ _lastCertificate \in {None} \cup {[height |-> c] : c \in 0..MaxStoredHeight}
    /\ newBlockHandlers = EmptyStore
    /\ receivingChainHandler = [pc |-> "idle"]
    /\ timers = {}
    /\ postedCCUs = {}
    /\ includedCCUs = {}
    /\ timedOutCCUs = {}
    /\ carriedCCMs = EmptyStore
    /\ CleanupFieldsInit
    /\ receivingChainClients = LoadedClients
    /\ handlerRuns = 0
    /\ receivingChain = [finalizedHeight |-> 0, lastCertificateHeights |-> <<>>]

\* the receiving chain gets a block: a CCU in it raises the height of the
\* last certificate, and the finalized height moves up to an earlier block;
\* every client that is connected and subscribed to chain_newBlock calls
\* its callback, _newBlockReceivingChainHandler
ReceivingChainBlock ==
    /\ ReceivingHeight < MaxReceivingBlocks
    /\ \E c \in LastCertificateHeightAt(receivingChain, ReceivingHeight)..MaxStoredHeight,
          f \in receivingChain.finalizedHeight..ReceivingHeight :
        receivingChain' = [finalizedHeight |-> f,
                           lastCertificateHeights |-> Append(receivingChain.lastCertificateHeights, c)]
    /\ handlerRuns' = Cardinality(Subscriptions(receivingChainClients))
    /\ call' = NoCall
    /\ UNCHANGED <<dbVars, bftVars, result, newBlockHandlers, receivingChainHandler, fieldVars,
                   timers, postedCCUs, includedCCUs, timedOutCCUs, carriedCCMs,
                   cleanupVars, receivingChainClients>>

\* ChainConnectorDB.delete...BetweenHeight(fromHeight, toHeight) on a store
\* kept by height
deleteBetweenHeight(store, fromHeight, toHeight) ==
    [k \in {k \in DOMAIN store : ~(fromHeight <= k /\ k <= toHeight)} |-> store[k]]

\* ChainConnectorDB.deleteValidatorsHashBetweenHeights: the validators data
\* saved for the heights fromHeight..toHeight
deleteValidatorsHashBetweenHeights(vdata, fromHeight, toHeight) ==
    [vh \in {vh \in DOMAIN vdata :
                ~(fromHeight <= vdata[vh].height /\ vdata[vh].height <= toHeight)} |-> vdata[vh]]

\* _heightToDeleteIndex.set(finalizedHeight, { inboxSize, lastCertificateHeight })
\* (the inbox size is read nowhere)
setFinalizedInfo(index, finalizedHeight, lastCertificateHeight) ==
    [k \in DOMAIN index \cup {finalizedHeight} |->
        IF k = finalizedHeight THEN [lastCertificateHeight |-> lastCertificateHeight]
        ELSE index[k]]

\* _cleanup: the entry of the finalized height, or else the first entry found
\* at finalizedHeight - i for i = 1 .. size - 1
finalizedInfoAtHeight(index, finalizedHeight) ==
    IF finalizedHeight \in DOMAIN index THEN index[finalizedHeight]
    ELSE LET below == {i \in 1..(Cardinality(DOMAIN index) - 1) :
                          (finalizedHeight - i) \in DOMAIN index}
         IN  IF below = {} THEN None
             ELSE index[finalizedHeight - (CHOOSE i \in below : \A j \in below : i <= j)]

\* _cleanup: the height the deletion ends below
endDeletionHeightByLastCertificate(index, finalizedHeight) ==
    LET info == finalizedInfoAtHeight(index, finalizedHeight)
    IN  IF info = None THEN 0 ELSE info.lastCertificateHeight

\* _cleanup: the entries of the heights below the finalized height are dropped
pruneIndex(index, finalizedHeight) ==
    [k \in {k \in DOMAIN index : ~(k < finalizedHeight)} |-> index[k]]

\* a field that holds a number (it is undefined before)
Number(n) == [kind |-> "number", value |-> n]

\* chain_newBlock of the receiving chain while no CCU is pending:
\* _newBlockReceivingChainHandler asks the node for its finalized height, and
\* for the channel and the chain account of this chain, notes the height of
\* the last certificate under the finalized height and calls _cleanup.  A
\* syncing node ends the handler, a missing account and an error of _cleanup
\* are caught and logged.  _cleanup reads _lastCertificate.height (a
\* TypeError while no block of the sending chain has set it), deletes the
\* records of the heights _lastDeletionHeight .. end - 1 and drops the old
\* entries of the index.  _lastDeletionHeight is undefined until the first
\* deletion has been made: the db either fails on it or reads it as 0.
NewBlockReceivingChainCleanup ==
    /\ handlerRuns >= 1
    /\ _lastSentCCUTxID = ""
    /\ call' = [op |-> "_newBlockReceivingChainHandler"]
    /\ \E syncing \in BOOLEAN, accounts \in BOOLEAN, undefinedHeight \in {Throw("height"), Return(0)} :
        LET finalizedHeight == receivingChain.finalizedHeight
            lastCertificateHeight == LastCertificateHeightAt(receivingChain, ReceivingHeight)
            index == setFinalizedInfo(_heightToDeleteIndex, finalizedHeight, lastCertificateHeight)
            end == endDeletionHeightByLastCertificate(index, finalizedHeight)
            start == IF _lastDeletionHeight = None THEN undefinedHeight
                     ELSE Return(_lastDeletionHeight.value)
        IN  IF syncing
            THEN UNCHANGED <<dbVars, cleanupVars>>
            ELSE IF ~accounts
            THEN /\ _receivingChainFinalizedHeight' = finalizedHeight
                 /\ UNCHANGED <<dbVars, _heightToDeleteIndex, _lastDeletionHeight>>
            ELSE IF _lastCertificate = None \/ (_lastCertificate.height > 0 /\ start.kind = "throw")
            THEN /\ _receivingChainFinalizedHeight' = finalizedHeight
                 /\ _heightToDeleteIndex' = index
                 /\ UNCHANGED <<dbVars, _lastDeletionHeight>>
            ELSE /\ _receivingChainFinalizedHeight' = finalizedHeight
                 /\ _heightToDeleteIndex' = pruneIndex(index, finalizedHeight)
                 /\ IF _lastCertificate.height > 0
                    THEN /\ crossChainMessages' = deleteBetweenHeight(crossChainMessages, start.value, end - 1)
                         /\ blockHeaders' = deleteBetweenHeight(blockHeaders, start.value, end - 1)
                         /\ aggregateCommits' = deleteBetweenHeight(aggregateCommits, start.value, end - 1)
                         /\ validatorsData' = deleteValidatorsHashBetweenHeights(validatorsData, start.value, end - 1)
                         /\ _lastDeletionHeight' = Number(end)
                    ELSE UNCHANGED <<dbVars, _lastDeletionHeight>>
    /\ UNCHANGED <<bftVars, result, newBlockHandlers, receivingChainHandler, fieldVars,
                   timers, postedCCUs, includedCCUs, timedOutCCUs, carriedCCMs, clientVars>>

\* DeleteBlockHandler leaving the aggregate commit of the height stored
DeleteBlockHandler_KeepsAggregateCommit(h) ==
    /\ call' = [op |-> "_deleteBlockHandler", height |-> h]
    /\ crossChainMessages' = deleteBetweenHeight(crossChainMessages, h, h)
    /\ blockHeaders' = deleteBetweenHeight(blockHeaders, h, h)
    /\ validatorsData' = deleteValidatorsHashBetweenHeights(validatorsData, h, h)
    /\ UNCHANGED <<aggregateCommits, bftVars, result, connectorVars>>

\* chain_deleteBlock of the sending chain for the block of height h:
\* _deleteBlockHandler deletes what is saved for the height
DeleteBlockHandler(h) ==
    /\ call' = [op |-> "_deleteBlockHandler", height |-> h]
    /\ crossChainMessages' = deleteBetweenHeight(crossChainMessages, h, h)
    /\ blockHeaders' = deleteBetweenHeight(blockHeaders, h, h)
    /\ aggregateCommits' = deleteBetweenHeight(aggregateCommits, h, h)
    /\ validatorsData' = deleteValidatorsHashBetweenHeights(validatorsData, h, h)
    /\ UNCHANGED <<bftVars, result, connectorVars>>

NextCleanup ==
    \/ ReceivingChainBlock
    \/ NewBlockReceivingChainCleanup
    \/ \E h \in SavedHeights : DeleteBlockHandler(h)

SpecCleanup == InitCleanup /\ [][NextCleanup]_vars

\* the height of this chain's last certificate in the state the receiving
\* chain had at its finalized height
CertificateHeightAtFinalized ==
    LastCertificateHeightAt(receivingChain, receivingChain.finalizedHeight)

\* C36: cleanup never removes data the next certificate needs: a run of the
\* receiving chain's handler, cleanup included, leaves every stored block
\* header, aggregate commit, validator snapshot and CCM list of a height at
\* or above the last certificate height the receiving chain had at its
\* finalized height; it deletes only heights strictly below that height.
C36_CleanupKeepsNeeded ==
    [][call'.op = "_newBlockReceivingChainHandler" =>
          \A h \in SavedHeights : h >= CertificateHeightAtFinalized =>
              /\ h \in DOMAIN blockHeaders => h \in DOMAIN blockHeaders'
              /\ h \in DOMAIN aggregateCommits => h \in DOMAIN aggregateCommits'
              /\ h \in DOMAIN crossChainMessages => h \in DOMAIN crossChainMessages'
              /\ \A vh \in DOMAIN validatorsData :
                     validatorsData[vh].height = h => vh \in DOMAIN validatorsData']_vars

\* the heights of the validator snapshots in a store
SnapshotHeights(vdata) == {vdata[vh].height : vh \in DOMAIN vdata}

\* what a store keeps for the heights other than h
Others(store, h) == [k \in DOMAIN store \ {h} |-> store[k]]

MaxClients == 3

InitSubscription ==
    /\ DBIdle
    /\ BFTIdle
    /\ call = NoCall
    /\ result = None
    /\ ConnectorIdle

\* load: await this._receivingChainAPIClient.connect() (an error ends load)
LoadConnect ==
    /\ receivingChainClients = <<>>
    /\ receivingChainClients' = <<Client(TRUE, FALSE)>>
    /\ UNCHANGED <<dbVars, bftVars, call, result, newBlockHandlers, receivingChainHandler,
                   fieldVars, timers, postedCCUs, includedCCUs, timedOutCCUs, carriedCCMs,
                   cleanupVars, handlerRuns, receivingChain>>

\* _initializeReceivingChainClient, called at the end of load and by
\* _handleNewBlock whenever getChainAccount has thrown: connect() fails
\* before it has a client, or after (its getNodeInfo fails), or it returns
\* and the new client is subscribed to chain_newBlock; errors are logged
InitializeReceivingChainClient ==
    /\ Len(receivingChainClients) >= 1
    /\ Len(receivingChainClients) < MaxClients
    /\ \E connect \in {"refused", "no node info", "connected"} :
        receivingChainClients' =
            IF connect = "refused" THEN receivingChainClients
            ELSE Append(receivingChainClients, Client(TRUE, connect = "connected"))
    /\ UNCHANGED <<dbVars, bftVars, call, result, newBlockHandlers, receivingChainHandler,
                   fieldVars, timers, postedCCUs, includedCCUs, timedOutCCUs, carriedCCMs,
                   cleanupVars, handlerRuns, receivingChain>>

\* the connection of a client is lost
ConnectionCloses(i) ==
    /\ i \in DOMAIN receivingChainClients
    /\ receivingChainClients[i].open
    /\ receivingChainClients' = [receivingChainClients EXCEPT ![i].open = FALSE]
    /\ UNCHANGED <<dbVars, bftVars, call, result, newBlockHandlers, receivingChainHandler,
                   fieldVars, timers, postedCCUs, includedCCUs, timedOutCCUs, carriedCCMs,
                   cleanupVars, handlerRuns, receivingChain>>

NextSubscription ==
    \/ LoadConnect
    \/ InitializeReceivingChainClient
    \/ \E i \in 1..MaxClients : ConnectionCloses(i)
    \/ ReceivingChainBlock

SpecSubscription == InitSubscription /\ [][NextSubscription]_vars

\* C37: at most one chain_newBlock subscription of the receiving chain is
\* registered at any time, whatever calls have failed and whatever
\* reconnections were made, and one block of the receiving chain starts
\* _newBlockReceivingChainHandler (and so cleanup) at most once.
C37_SingleSubscription ==
    /\ Cardinality(Subscriptions(receivingChainClients)) <= 1
    /\ handlerRuns <= 1

====
